---- MODULE Spec2Model ----
(***************************************************************************)
(* Model of the translation catalog tool: the nested-key helpers and the    *)
(* catalog files of src/utils/object.js, addTranslation and                *)
(* batchAddTranslations of src/usage-scanner.js, the key and language      *)
(* commands of src/commands.js, the reports of src/verification.js and the *)
(* usage scan of src/usage-scanner.js.                                     *)
(*                                                                         *)
(* A JavaScript string is a sequence of one-character strings, so that     *)
(* split('.') and the regular expressions are computed, not assumed.  A    *)
(* JavaScript value is a record [kind, val, kids]: kind is "object",       *)
(* "string", "array", "null" or "undefined"; val is the text of a string;  *)
(* kids is the ordered list of own properties [k, v] of an object, in the  *)
(* order Object.keys and Object.entries report: integer-index keys first,  *)
(* in ascending numeric order, then the other keys in insertion order.     *)
(*                                                                         *)
(* Path segments are not inherited properties of Object or String, and     *)
(* integer-index names occur as keys of trees only, never as segments      *)
(* applied to a string, so reading a property of a string, or a missing    *)
(* property of an object, yields undefined.                                *)
(*                                                                         *)
(* Spec runs the commands that write catalogs; LoadSpec, NumberSpec and    *)
(* AlignSpec run the same commands from catalog files that cannot be       *)
(* loaded, that have keys made of digits, and that differ in their empty   *)
(* mappings only.  TreeSpec applies the functions of utils/object.js to    *)
(* trees, VerifySpec the reports to catalogs and ScanSpec the usage scan   *)
(* to source text.  A file that cannot be read or parsed is the value of   *)
(* kind "corrupt".                                                         *)
(***************************************************************************)
EXTENDS Integers, Sequences, FiniteSets, TLC

(* ------------------------------ bounds -------------------------------- *)

\* Commands run in one behaviour.
MaxCmds == 1

\* Properties (keys with their values, at any level) of a tree handed to the
\* functions of utils/object.js.
MaxEntries == 4

\* Segments of a path handed to the functions of utils/object.js.
MaxSegments == 3

\* The number of lines of scanned source text
MaxLines == 2

(* --------------------------- JavaScript values ------------------------ *)

Undefined == [kind |-> "undefined", val |-> "", kids |-> <<>>]

Null == [kind |-> "null", val |-> "", kids |-> <<>>]

Str(s) == [kind |-> "string", val |-> s, kids |-> <<>>]

Obj(kids) == [kind |-> "object", val |-> "", kids |-> kids]

EmptyObj == Obj(<<>>)

\* An array, which the functions of utils/object.js treat as a leaf; kids is
\* the list of its elements.
Arr(items) == [kind |-> "array", val |-> "", kids |-> items]

KV(k, v) == [k |-> k, v |-> v]

\* !x for the values that occur: null, undefined and "" are falsy.
Falsy(x) == x.kind \in {"null", "undefined"} \/ (x.kind = "string" /\ x.val = "")

HasOwn(o, key) == o.kind = "object" /\ \E i \in 1..Len(o.kids) : o.kids[i].k = key

\* current?.[key]
Prop(o, key) ==
    IF HasOwn(o, key)
    THEN o.kids[CHOOSE i \in 1..Len(o.kids) : o.kids[i].k = key].v
    ELSE Undefined

DigitValue(c) ==
    CHOOSE n \in 0..9 : <<"0", "1", "2", "3", "4", "5", "6", "7", "8", "9">>[n + 1] = c

\* The key is an integer index ("0", "7", "10", not "01" or "-1"): such keys
\* of an object are enumerated first, in ascending numeric order, and the
\* other keys after them in the order of their creation.
IsIndex(key) ==
    /\ Len(key) > 0
    /\ \A i \in 1..Len(key) :
          key[i] \in {"0", "1", "2", "3", "4", "5", "6", "7", "8", "9"}
    /\ Len(key) > 1 => key[1] # "0"

RECURSIVE IndexValue(_)
IndexValue(key) ==
    IF key = <<>> THEN 0
    ELSE 10 * IndexValue(SubSeq(key, 1, Len(key) - 1)) + DigitValue(key[Len(key)])

\* o[key] = v on an object: an existing key keeps its position; a new key is
\* appended, unless it is an integer index, which takes its place among the
\* integer indices at the front.
PutProp(o, key, v) ==
    IF HasOwn(o, key)
    THEN Obj([i \in 1..Len(o.kids) |->
                 IF o.kids[i].k = key THEN KV(key, v) ELSE o.kids[i]])
    ELSE IF IsIndex(key)
    THEN LET before == SelectSeq(o.kids, LAMBDA e :
                           IsIndex(e.k) /\ IndexValue(e.k) < IndexValue(key))
             after == SelectSeq(o.kids, LAMBDA e :
                           ~(IsIndex(e.k) /\ IndexValue(e.k) < IndexValue(key)))
         IN  Obj(before \o <<KV(key, v)>> \o after)
    ELSE Obj(Append(o.kids, KV(key, v)))

\* delete o[key]
DelProp(o, key) == Obj(SelectSeq(o.kids, LAMBDA e : e.k # key))

Keys(o) == [i \in 1..Len(o.kids) |-> o.kids[i].k]

Front(s) == SubSeq(s, 1, Len(s) - 1)

Last(s) == s[Len(s)]

RECURSIVE splitRec(_, _, _)
splitRec(s, cur, acc) ==
    IF s = <<>> THEN Append(acc, cur)
    ELSE IF Head(s) = "." THEN splitRec(Tail(s), <<>>, Append(acc, cur))
    ELSE splitRec(Tail(s), Append(cur, Head(s)), acc)

\* path.split('.')
split(path) == splitRec(path, <<>>, <<>>)

(* ------------------------------ characters ---------------------------- *)

Lower == {"a", "b", "c", "d", "e", "f", "g", "h", "i", "j", "k", "l", "m",
          "n", "o", "p", "q", "r", "s", "t", "u", "v", "w", "x", "y", "z"}

Upper == {"A", "B", "C", "D", "E", "F", "G", "H", "I", "J", "K", "L", "M",
          "N", "O", "P", "Q", "R", "S", "T", "U", "V", "W", "X", "Y", "Z"}

Digit == {"0", "1", "2", "3", "4", "5", "6", "7", "8", "9"}

\* /^[a-zA-Z0-9._-]+$/.test(key)
KeyFormatOK(key) ==
    /\ Len(key) > 0
    /\ \A i \in 1..Len(key) : key[i] \in Lower \cup Upper \cup Digit \cup {".", "_", "-"}

\* Faulty variant of LangCodeFormatOK: the pattern without its anchors and
\* separator, /[a-z]{2}/.
LangCodeFormatUnanchored(code) ==
    \E i \in 1..(Len(code) - 1) : code[i] \in Lower /\ code[i + 1] \in Lower

\* /^[a-z]{2}-[a-z]{2}$/.test(langCode)
LangCodeFormatOK(code) ==
    /\ Len(code) = 5
    /\ code[1] \in Lower /\ code[2] \in Lower
    /\ code[3] = "-"
    /\ code[4] \in Lower /\ code[5] \in Lower

\* UTF-16 code units of the characters that occur in keys of the model.
CharCode(c) ==
    CASE c = "!" -> 33
      [] c = "-" -> 45
      [] c = "." -> 46
      [] c \in Digit -> 48 + DigitValue(c)
      [] c = "a" -> 97
      [] c = "b" -> 98
      [] c = "c" -> 99
      [] c = "d" -> 100
      [] OTHER -> 0

\* a < b in the default order of Array.prototype.sort (code units).
RECURSIVE StrLess(_, _)
StrLess(a, b) ==
    IF b = <<>> THEN FALSE
    ELSE IF a = <<>> THEN TRUE
    ELSE IF CharCode(Head(a)) # CharCode(Head(b))
         THEN CharCode(Head(a)) < CharCode(Head(b))
    ELSE StrLess(Tail(a), Tail(b))

(* ----------------------------- utils/object.js ------------------------ *)

RECURSIVE getRec(_, _)
getRec(current, keys) ==
    IF keys = <<>> THEN current
    ELSE getRec(Prop(current, Head(keys)), Tail(keys))

getNestedProperty(obj, path) == getRec(obj, split(path))

\* The reduce of setNestedProperty followed by target[lastKey] = value.
\* `key in current` and, in a module (strict mode), an assignment to a
\* property of a string both raise TypeError; nothing has been changed when
\* that happens, since every key above a string already existed.
RECURSIVE setRec(_, _, _)
setRec(current, keys, value) ==
    IF current.kind # "object"
    THEN [threw |-> TRUE, obj |-> current]
    ELSE IF Len(keys) = 1
    THEN [threw |-> FALSE, obj |-> PutProp(current, keys[1], value)]
    ELSE LET key == Head(keys)
             withKey == IF HasOwn(current, key) THEN current
                        ELSE PutProp(current, key, EmptyObj)
             r == setRec(Prop(withKey, key), Tail(keys), value)
         IN  IF r.threw THEN [threw |-> TRUE, obj |-> current]
             ELSE [threw |-> FALSE, obj |-> PutProp(withKey, key, r.obj)]

setNestedProperty(obj, path, value) == setRec(obj, split(path), value)

RECURSIVE insertSorted(_, _)
insertSorted(key, sorted) ==
    IF sorted = <<>> THEN <<key>>
    ELSE IF StrLess(key, Head(sorted)) THEN <<key>> \o sorted
    ELSE <<Head(sorted)>> \o insertSorted(key, Tail(sorted))

RECURSIVE sortKeys(_)
sortKeys(keys) ==
    IF keys = <<>> THEN <<>>
    ELSE insertSorted(Head(keys), sortKeys(Tail(keys)))

\* Object.keys(obj).sort().forEach(key => sorted[key] = ...), from the i-th
\* key of ks on.
RECURSIVE sortObjectRecursively(_)
RECURSIVE sortedFrom(_, _, _, _)
sortedFrom(obj, ks, i, sorted) ==
    IF i > Len(ks) THEN sorted
    ELSE sortedFrom(obj, ks, i + 1,
                    PutProp(sorted, ks[i], sortObjectRecursively(Prop(obj, ks[i]))))

sortObjectRecursively(obj) ==
    IF obj.kind # "object" THEN obj
    ELSE sortedFrom(obj, sortKeys(Keys(obj)), 1, EmptyObj)

\* Faulty variant of translationExists: reports the keys that are absent.
translationExistsInverted(translations, key) ==
    getNestedProperty(translations, key) = Undefined

translationExists(translations, key) ==
    getNestedProperty(translations, key) # Undefined

\* Object.assign(flattened, more) on lists of [k, v] entries.
RECURSIVE assign(_, _)
assign(flattened, more) ==
    IF more = <<>> THEN flattened
    ELSE assign(PutProp(Obj(flattened), Head(more).k, Head(more).v).kids, Tail(more))

RECURSIVE flattenRec(_, _, _)
flattenRec(kids, prefix, flattened) ==
    IF kids = <<>> THEN flattened
    ELSE LET key == Head(kids).k
             value == Head(kids).v
             newKey == IF prefix # <<>> THEN prefix \o <<".">> \o key ELSE key
         IN  IF value.kind = "object"
             THEN flattenRec(Tail(kids), prefix,
                             assign(flattened, flattenRec(value.kids, newKey, <<>>)))
             ELSE flattenRec(Tail(kids), prefix,
                             assign(flattened, <<KV(newKey, value)>>))

\* Faulty variant of flattenObject: nested mappings are not descended into.
flattenObjectTopLevel(obj) == obj.kids

\* The flattened object as its ordered list of [k, v] entries.
flattenObject(obj) == flattenRec(obj.kids, <<>>, <<>>)

RECURSIVE deleteAt(_, _, _)
\* delete (the object reached from o by keys)[k]
deleteAt(o, keys, k) ==
    IF keys = <<>> THEN DelProp(o, k)
    ELSE PutProp(o, Head(keys), deleteAt(Prop(o, Head(keys)), Tail(keys), k))

(* ------------------------------ commands.js --------------------------- *)

\* The for loop of removeNestedProperty; cur is the list of keys that leads
\* from obj to the loop's variable `current`.  Only the step whose nextKey is
\* absent tests a mapping for emptiness, and `current` is then the parent of
\* the last key of keys.
RECURSIVE pruneLoop(_, _, _, _)
pruneLoop(obj, keys, i, cur) ==
    IF i > Len(keys) THEN obj
    ELSE LET key == keys[i]
             nextKey == IF i + 1 <= Len(keys) THEN keys[i + 1] ELSE <<>>
             child == Prop(getRec(obj, cur), key)
         IN  IF nextKey # <<>>
             THEN pruneLoop(obj, keys, i + 1, Append(cur, key))
             ELSE IF child.kind = "object" /\ Len(child.kids) = 0
             THEN pruneLoop(deleteAt(obj, cur, key), keys, i + 1, cur)
             ELSE pruneLoop(obj, keys, i + 1, cur)

\* Faulty variant of removeNestedProperty: deletes the parent of the last key
\* without testing that it has become empty.
removeNestedPropertyEager(obj, path) ==
    LET lastKey == Last(split(path))
        keys == Front(split(path))
        target == getRec(obj, keys)
    IN  IF target.kind # "object" THEN obj
        ELSE IF keys = <<>> THEN DelProp(obj, lastKey)
        ELSE deleteAt(obj, Front(keys), Last(keys))

removeNestedProperty(obj, path) ==
    LET lastKey == Last(split(path))
        keys == Front(split(path))
        target == getRec(obj, keys)
    IN  IF target.kind = "object"
        THEN pruneLoop(deleteAt(obj, keys, lastKey), keys, 1, <<>>)
        ELSE obj

(* ---------------------- utils/object.js: catalog files ----------------- *)

\* A catalog file that cannot be read or whose content JSON.parse rejects.
Corrupt == [kind |-> "corrupt", val |-> "", kids |-> <<>>]

\* Faulty variant of loadResult: every error yields the empty object.
loadResultLenient(fs, langCode) ==
    IF langCode \in DOMAIN fs /\ fs[langCode] # Corrupt
    THEN [threw |-> FALSE, obj |-> fs[langCode]]
    ELSE [threw |-> FALSE, obj |-> EmptyObj]

\* fs maps the language codes that have a catalog file to the parsed file.
\* ENOENT yields {}, any other error of readFile or JSON.parse is rethrown.
loadResult(fs, langCode) ==
    IF langCode \notin DOMAIN fs THEN [threw |-> FALSE, obj |-> EmptyObj]
    ELSE IF fs[langCode] = Corrupt THEN [threw |-> TRUE, obj |-> Undefined]
    ELSE [threw |-> FALSE, obj |-> fs[langCode]]

\* What loadTranslations returns when it returns.
loadTranslations(fs, langCode) == loadResult(fs, langCode).obj

\* Whether loadTranslations raises.
loadThrows(fs, langCode) == loadResult(fs, langCode).threw

saveTranslations(fs, langCode, translations) ==
    [c \in DOMAIN fs \cup {langCode} |->
        IF c = langCode THEN translations ELSE fs[c]]

(* ------------------------------- inputs ------------------------------- *)

EnUs == <<"e", "n", "-", "u", "s">>

PtPt == <<"p", "t", "-", "p", "t">>

DeDe == <<"d", "e", "-", "d", "e">>

Pa == <<"a">>

Pb == <<"b">>

Pab == <<"a", ".", "b">>

Pac == <<"a", ".", "c">>

Pc == <<"c">>

Pabc == <<"a", ".", "b", ".", "c">>

PaBang == <<"a", "!">>

\* Key paths given on the command line that pass the key format check.
Paths == {Pa, Pb, Pab, Pabc}

\* Source texts given on the command line (never empty there).
SourceTexts == {"S"}

\* What translateText returns: null after an error, else the trimmed answer.
TranslateResults == {Null, Str(""), Str("T")}

Pair(key, text) == [key |-> key, text |-> text]

\* Pair lists handed to batchAddTranslations (what parseTranslationInput
\* makes of the input file, whose keys may be dotted).
BatchInputs ==
    { <<Pair(Pab, "S1"), Pair(Pb, "S2")>>,
      <<Pair(Pab, "S1"), Pair(Pa, "S2")>>,
      <<Pair(Pabc, "S1"), Pair(Pac, "S2")>> }

\* Language codes given to addNewLanguage: new, already configured, malformed.
NewCodes == {DeDe, EnUs, <<"d", "e">>}

\* {a: "x"}
LeafCatalog == Obj(<<KV(Pa, Str("x"))>>)

\* {a: {b: "x", c: "y"}}
NestedCatalog == Obj(<<KV(Pa, Obj(<<KV(Pb, Str("x")), KV(Pc, Str("y"))>>))>>)

\* {b: "y", a: {b: "x"}}, keys not in sorted order
UnsortedCatalog == Obj(<<KV(Pb, Str("y")), KV(Pa, Obj(<<KV(Pb, Str("x"))>>))>>)

\* {a: {b: {c: "z"}}}
DeepCatalog == Obj(<<KV(Pa, Obj(<<KV(Pb, Obj(<<KV(Pc, Str("z"))>>))>>))>>)

\* Catalog files as they may be found on disk.
InitCatalogs == {EmptyObj, LeafCatalog, NestedCatalog, UnsortedCatalog, DeepCatalog}

\* The catalog files the model starts from: en-us holds any of the catalogs
\* above; the source language pt-pt has no file or one of three of them.
InitFiles ==
    { [c \in {EnUs} |-> en] : en \in InitCatalogs }
    \cup { [c \in {EnUs, PtPt} |-> IF c = EnUs THEN en ELSE pt] :
             en \in InitCatalogs, pt \in {EmptyObj, LeafCatalog, UnsortedCatalog} }

(* -------------------------------- state ------------------------------- *)

VARIABLES
    files,    \* language code -> parsed catalog file, for the files that exist
    config,   \* the configuration file: languages (in order), sourceLanguage
    pre,      \* files and config when the last command started
    last,     \* the last command: its arguments and how it ended
    io,       \* what the last command loaded, asked, translated and saved
    ncmds,    \* commands run so far
    call      \* a call that writes no file (a function of utils/object.js, a
              \* verification command): its arguments and its result

vars == <<files, config, pre, last, io, ncmds, call>>

NoCommand ==
    [op |-> "none", key |-> <<>>, newKey |-> <<>>, text |-> "", pairs |-> <<>>,
     force |-> FALSE, interactive |-> FALSE, langCode |-> <<>>,
     translateFromSource |-> FALSE, error |-> "none",
     keysCount |-> 0, translated |-> FALSE, errorFlag |-> FALSE]

\* One entry of io.  ev is "load", "prompt", "translate", "set" or "save"; ok is
\* the user's answer to a prompt or whether a translate call returned a
\* non-null value; texts are the texts a translate call returned or the text a
\* set stored; n is the number of texts a translate call was given.
Event(ev, lang, key, ok, texts, n) ==
    [ev |-> ev, lang |-> lang, key |-> key, ok |-> ok, texts |-> texts, n |-> n]

\* No function call is under way: the state of call while commands run.
NoCall ==
    [fn |-> "none", tree |-> EmptyObj, path |-> <<>>, value |-> Undefined,
     out |-> Undefined, threw |-> FALSE]

\* The state a command carries through its loop over the languages.
Run(fs) == [files |-> fs, io |-> <<>>, threw |-> FALSE]

\* loadTranslations raised for langCode: the command ends there.
LoadFailed(rs, langCode) ==
    [rs EXCEPT !.io = Append(@, Event("load", langCode, <<>>, FALSE, <<>>, 0)),
               !.threw = TRUE]

\* The error a command that raised ends with: the error of the load that
\* failed, or the TypeError of setNestedProperty.
Raised(rs) ==
    IF rs.io # <<>> /\ Last(rs.io).ev = "load" /\ ~Last(rs.io).ok
    THEN "LoadError" ELSE "TypeError"

Init ==
    /\ config = [languages |-> <<EnUs, PtPt>>, sourceLanguage |-> PtPt]
    /\ files \in InitFiles
    /\ pre = [files |-> files, config |-> config]
    /\ last = NoCommand
    /\ io = <<>>
    /\ ncmds = 0
    /\ call = NoCall

(* --------------- usage-scanner.js: add and batch-add ------------------- *)

\* One iteration of the loop of addTranslation, as the set of ways it can end:
\* one per answer to the prompt (when the user is asked) and per result of
\* translateText (when it is called).
addTranslationLang(rs, key, sourceText, cfg, force, interactive, langCode) ==
    LET translations == loadTranslations(rs.files, langCode)
        io0 == Append(rs.io, Event("load", langCode, <<>>, TRUE, <<>>, 0))
        exists == translationExists(translations, key)
        asked == exists /\ ~force /\ interactive
        isSource == langCode = cfg.sourceLanguage
        end(shouldReplace, translatedText) ==
            LET io1 == IF asked
                       THEN Append(io0, Event("prompt", langCode, key, shouldReplace, <<>>, 0))
                       ELSE io0
                io2 == IF isSource THEN io1
                       ELSE Append(io1, Event("translate", langCode, key,
                                              translatedText # Null,
                                              IF translatedText = Null THEN <<>>
                                              ELSE <<translatedText.val>>, 1))
                set == setNestedProperty(translations, key, translatedText)
            IN  IF exists /\ ~shouldReplace THEN [rs EXCEPT !.io = io1]
                ELSE IF ~isSource /\ Falsy(translatedText) THEN [rs EXCEPT !.io = io2]
                ELSE IF set.threw THEN [rs EXCEPT !.io = io2, !.threw = TRUE]
                ELSE [files |-> saveTranslations(rs.files, langCode,
                                                 sortObjectRecursively(set.obj)),
                      io |-> io2 \o <<Event("set", langCode, key, TRUE,
                                               <<translatedText.val>>, 0),
                                         Event("save", langCode, <<>>, TRUE, <<>>, 0)>>,
                      threw |-> FALSE]
    IN  IF loadThrows(rs.files, langCode) THEN {LoadFailed(rs, langCode)}
        ELSE { end(shouldReplace, translatedText) :
                shouldReplace \in (IF asked THEN BOOLEAN ELSE {force}),
                translatedText \in (IF isSource THEN {Str(sourceText)}
                                    ELSE TranslateResults) }

\* Faulty variant of addTranslationLoop: the languages are processed from the
\* last of the configuration to the first.
RECURSIVE addTranslationLoopBackwards(_, _, _, _, _, _, _)
addTranslationLoopBackwards(runs, i, key, sourceText, cfg, force, interactive) ==
    IF i > Len(cfg.languages) THEN runs
    ELSE addTranslationLoopBackwards(
            UNION { IF rs.threw THEN {rs}
                    ELSE addTranslationLang(rs, key, sourceText, cfg, force, interactive,
                                            cfg.languages[Len(cfg.languages) + 1 - i]) :
                    rs \in runs },
            i + 1, key, sourceText, cfg, force, interactive)

\* The loop of addTranslation over Object.entries(config.languages); an
\* exception ends the loop.
RECURSIVE addTranslationLoop(_, _, _, _, _, _, _)
addTranslationLoop(runs, i, key, sourceText, cfg, force, interactive) ==
    IF i > Len(cfg.languages) THEN runs
    ELSE addTranslationLoop(
            UNION { IF rs.threw THEN {rs}
                    ELSE addTranslationLang(rs, key, sourceText, cfg, force,
                                            interactive, cfg.languages[i]) :
                    rs \in runs },
            i + 1, key, sourceText, cfg, force, interactive)

addTranslation(key, sourceText, force, interactive) ==
    /\ ncmds < MaxCmds
    /\ \E rs \in addTranslationLoop({Run(files)}, 1, key, sourceText, config,
                                    force, interactive) :
        /\ files' = rs.files
        /\ io' = rs.io
        /\ last' = [NoCommand EXCEPT !.op = "add", !.key = key, !.text = sourceText,
                                     !.force = force, !.interactive = interactive,
                                     !.error = IF rs.threw THEN Raised(rs) ELSE "none"]
    /\ pre' = [files |-> files, config |-> config]
    /\ ncmds' = ncmds + 1
    /\ UNCHANGED <<config, call>>

\* The pairs of seq whose flag is set, in order.
RECURSIVE selectFlagged(_, _)
selectFlagged(seq, flags) ==
    IF seq = <<>> THEN <<>>
    ELSE (IF Head(flags) THEN <<Head(seq)>> ELSE <<>>)
         \o selectFlagged(Tail(seq), Tail(flags))

\* What batchTranslate returns for n texts: null after an error, else the
\* lines of the answer, which may be fewer or more than n.
batchResult(shape, n) ==
    [isNull |-> shape = "null",
     texts |-> CASE shape = "null" -> <<>>
                 [] shape = "same" -> [i \in 1..n |-> "T" \o ToString(i)]
                 [] shape = "short" -> [i \in 1..(n - 1) |-> "T" \o ToString(i)]
                 [] shape = "long" -> [i \in 1..(n + 1) |-> "T" \o ToString(i)]]

BatchShapes == {"null", "same", "short", "long"}

\* newPairs.forEach(... setNestedProperty ...): the pairs from index i on.
RECURSIVE setPairs(_, _, _, _)
setPairs(obj, keys, texts, i) ==
    IF i > Len(keys) THEN [threw |-> FALSE, obj |-> obj]
    ELSE LET text == IF i <= Len(texts) THEN Str(texts[i]) ELSE Undefined
             set == setNestedProperty(obj, keys[i], text)
         IN  IF set.threw THEN [threw |-> TRUE, obj |-> obj]
             ELSE setPairs(set.obj, keys, texts, i + 1)

\* One iteration of the loop of batchAddTranslations, as the set of ways it
\* can end.
batchAddTranslationsLang(rs, translationPairs, cfg, force, interactive, langCode) ==
    LET translations == loadTranslations(rs.files, langCode)
        io0 == Append(rs.io, Event("load", langCode, <<>>, TRUE, <<>>, 0))
        existingPairs == SelectSeq(translationPairs,
                            LAMBDA pair : translationExists(translations, pair.key))
        freshPairs == SelectSeq(translationPairs,
                            LAMBDA pair : ~translationExists(translations, pair.key))
        asked == Len(existingPairs) > 0 /\ ~force /\ interactive
        isSource == langCode = cfg.sourceLanguage
        end(answers, shape) ==
            LET io1 == IF asked
                       THEN io0 \o [i \in 1..Len(existingPairs) |->
                                      Event("prompt", langCode, existingPairs[i].key,
                                            answers[i], <<>>, 0)]
                       ELSE io0
                newPairs == IF asked THEN freshPairs \o selectFlagged(existingPairs, answers)
                            ELSE IF Len(existingPairs) > 0 /\ force
                            THEN freshPairs \o existingPairs
                            ELSE freshPairs
                textsToTranslate == [i \in 1..Len(newPairs) |-> newPairs[i].text]
                translatedTexts == IF isSource
                                   THEN [isNull |-> FALSE, texts |-> textsToTranslate]
                                   ELSE batchResult(shape, Len(newPairs))
                io2 == IF isSource THEN io1
                       ELSE Append(io1, Event("translate", langCode, <<>>,
                                              ~translatedTexts.isNull,
                                              translatedTexts.texts,
                                              Len(textsToTranslate)))
                set == setPairs(translations,
                                [i \in 1..Len(newPairs) |-> newPairs[i].key],
                                translatedTexts.texts, 1)
            IN  IF Len(newPairs) = 0 THEN [rs EXCEPT !.io = io1]
                ELSE IF ~isSource /\ (translatedTexts.isNull
                                      \/ Len(translatedTexts.texts) # Len(textsToTranslate))
                THEN [rs EXCEPT !.io = io2]
                ELSE IF set.threw THEN [rs EXCEPT !.io = io2, !.threw = TRUE]
                ELSE [files |-> saveTranslations(rs.files, langCode,
                                                 sortObjectRecursively(set.obj)),
                      io |-> io2
                             \o [i \in 1..Len(newPairs) |->
                                    Event("set", langCode, newPairs[i].key, TRUE,
                                          <<translatedTexts.texts[i]>>, 0)]
                             \o <<Event("save", langCode, <<>>, TRUE, <<>>, 0)>>,
                      threw |-> FALSE]
    IN  IF loadThrows(rs.files, langCode) THEN {LoadFailed(rs, langCode)}
        ELSE { end(answers, shape) :
                answers \in (IF asked THEN [1..Len(existingPairs) -> BOOLEAN]
                             ELSE {<<>>}),
                shape \in (IF isSource THEN {"same"} ELSE BatchShapes) }

RECURSIVE batchAddTranslationsLoop(_, _, _, _, _, _)
batchAddTranslationsLoop(runs, i, translationPairs, cfg, force, interactive) ==
    IF i > Len(cfg.languages) THEN runs
    ELSE batchAddTranslationsLoop(
            UNION { IF rs.threw THEN {rs}
                    ELSE batchAddTranslationsLang(rs, translationPairs, cfg, force,
                                                  interactive, cfg.languages[i]) :
                    rs \in runs },
            i + 1, translationPairs, cfg, force, interactive)

batchAddTranslations(translationPairs, force, interactive) ==
    /\ ncmds < MaxCmds
    /\ \E rs \in batchAddTranslationsLoop({Run(files)}, 1, translationPairs, config,
                                          force, interactive) :
        /\ files' = rs.files
        /\ io' = rs.io
        /\ last' = [NoCommand EXCEPT !.op = "batch", !.pairs = translationPairs,
                                     !.force = force, !.interactive = interactive,
                                     !.error = IF rs.threw THEN Raised(rs) ELSE "none"]
    /\ pre' = [files |-> files, config |-> config]
    /\ ncmds' = ncmds + 1
    /\ UNCHANGED <<config, call>>

(* ------------------------ commands.js: key management ----------------- *)

\* Faulty variant of existsInAnyLanguage: the path must resolve in every
\* language.
existsInEveryLanguage(fs, cfg, path) ==
    \A i \in 1..Len(cfg.languages) :
        getNestedProperty(loadTranslations(fs, cfg.languages[i]), path) # Undefined

\* Some language of cfg has a catalog in which path resolves.
existsInAnyLanguage(fs, cfg, path) ==
    \E i \in 1..Len(cfg.languages) :
        getNestedProperty(loadTranslations(fs, cfg.languages[i]), path) # Undefined

loadAll(cfg, n) ==
    [i \in 1..n |-> Event("load", cfg.languages[i], <<>>, TRUE, <<>>, 0)]

\* The first of the languages 1..n whose catalog cannot be loaded, 0 if all
\* can.
firstCorrupt(fs, cfg, n) ==
    IF \E i \in 1..n : loadThrows(fs, cfg.languages[i])
    THEN CHOOSE i \in 1..n :
            /\ loadThrows(fs, cfg.languages[i])
            /\ \A j \in 1..(i - 1) : ~loadThrows(fs, cfg.languages[j])
    ELSE 0

\* A loop that loads the languages 1..n in order, ended by the load of the
\* first catalog that cannot be loaded.
loadAllFailing(fs, cfg, n) ==
    LoadFailed([Run(fs) EXCEPT !.io = loadAll(cfg, firstCorrupt(fs, cfg, n) - 1)],
               cfg.languages[firstCorrupt(fs, cfg, n)])

\* The second loop of renameTranslationKey, from language i on.
RECURSIVE renameLoop(_, _, _, _, _)
renameLoop(rs, i, oldKey, newKey, cfg) ==
    IF i > Len(cfg.languages) \/ rs.threw THEN rs
    ELSE LET langCode == cfg.languages[i]
             translations == loadTranslations(rs.files, langCode)
             io0 == Append(rs.io, Event("load", langCode, <<>>, TRUE, <<>>, 0))
             oldValue == getNestedProperty(translations, oldKey)
             set == setNestedProperty(translations, newKey, oldValue)
             sortedTranslations ==
                 sortObjectRecursively(removeNestedProperty(set.obj, oldKey))
         IN  IF loadThrows(rs.files, langCode) THEN LoadFailed(rs, langCode)
             ELSE IF oldValue = Undefined
             THEN renameLoop([rs EXCEPT !.io = io0], i + 1, oldKey, newKey, cfg)
             ELSE IF set.threw
             THEN [rs EXCEPT !.io = io0, !.threw = TRUE]
             ELSE renameLoop(
                     [files |-> saveTranslations(rs.files, langCode, sortedTranslations),
                      io |-> Append(io0, Event("save", langCode, <<>>, TRUE, <<>>, 0)),
                      threw |-> FALSE],
                     i + 1, oldKey, newKey, cfg)

renameTranslationKey(oldKey, newKey, force) ==
    LET keyExists == existsInAnyLanguage(files, config, oldKey)
        newKeyExists == existsInAnyLanguage(files, config, newKey)
        scanned == [Run(files) EXCEPT !.io = loadAll(config, Len(config.languages))]
        unloadable == firstCorrupt(files, config, Len(config.languages)) > 0
        error == IF ~KeyFormatOK(newKey) THEN "InvalidFormat"
                 ELSE IF unloadable THEN "LoadError"
                 ELSE IF ~keyExists THEN "KeyNotFound"
                 ELSE IF newKeyExists /\ ~force THEN "NewKeyExists"
                 ELSE "none"
        rs == IF error = "InvalidFormat" THEN Run(files)
              ELSE IF error = "LoadError"
              THEN [loadAllFailing(files, config, Len(config.languages))
                        EXCEPT !.threw = FALSE]
              ELSE IF error # "none" THEN scanned
              ELSE renameLoop(scanned, 1, oldKey, newKey, config)
    IN  /\ ncmds < MaxCmds
        /\ \E run \in {rs} :
            /\ files' = run.files
            /\ io' = run.io
            /\ last' = [NoCommand EXCEPT !.op = "rename", !.key = oldKey,
                                         !.newKey = newKey, !.force = force,
                                         !.error = IF run.threw THEN Raised(run)
                                                   ELSE error]
        /\ pre' = [files |-> files, config |-> config]
        /\ ncmds' = ncmds + 1
        /\ UNCHANGED <<config, call>>

\* The second loop of removeTranslationKey, from language i on.
RECURSIVE removeLoop(_, _, _, _)
removeLoop(rs, i, key, cfg) ==
    IF i > Len(cfg.languages) \/ rs.threw THEN rs
    ELSE LET langCode == cfg.languages[i]
             translations == loadTranslations(rs.files, langCode)
             io0 == Append(rs.io, Event("load", langCode, <<>>, TRUE, <<>>, 0))
             value == getNestedProperty(translations, key)
             sortedTranslations ==
                 sortObjectRecursively(removeNestedProperty(translations, key))
         IN  IF loadThrows(rs.files, langCode) THEN LoadFailed(rs, langCode)
             ELSE IF value = Undefined
             THEN removeLoop([rs EXCEPT !.io = io0], i + 1, key, cfg)
             ELSE removeLoop(
                     [files |-> saveTranslations(rs.files, langCode, sortedTranslations),
                      io |-> Append(io0, Event("save", langCode, <<>>, TRUE, <<>>, 0)),
                      threw |-> FALSE],
                     i + 1, key, cfg)

\* The first loop of removeTranslationKey stops at the first language in
\* which the key resolves.
firstWith(fs, cfg, key) ==
    IF existsInAnyLanguage(fs, cfg, key)
    THEN CHOOSE i \in 1..Len(cfg.languages) :
            /\ getNestedProperty(loadTranslations(fs, cfg.languages[i]), key) # Undefined
            /\ \A j \in 1..(i - 1) :
                 getNestedProperty(loadTranslations(fs, cfg.languages[j]), key) = Undefined
    ELSE Len(cfg.languages)

removeTranslationKey(key) ==
    LET keyExists == existsInAnyLanguage(files, config, key)
        scanned == [Run(files) EXCEPT !.io = loadAll(config, firstWith(files, config, key))]
        unloadable == firstCorrupt(files, config, firstWith(files, config, key)) > 0
        rs == IF unloadable
              THEN loadAllFailing(files, config, firstWith(files, config, key))
              ELSE IF ~keyExists THEN scanned
              ELSE removeLoop(scanned, 1, key, config)
    IN  /\ ncmds < MaxCmds
        /\ \E run \in {rs} :
            /\ files' = run.files
            /\ io' = run.io
            /\ last' = [NoCommand EXCEPT !.op = "remove", !.key = key,
                                         !.error = IF run.threw THEN Raised(run)
                                                   ELSE IF keyExists THEN "none"
                                                   ELSE "KeyNotFound"]
        /\ pre' = [files |-> files, config |-> config]
        /\ ncmds' = ncmds + 1
        /\ UNCHANGED <<config, call>>

(* ------------------------ commands.js: add a language ----------------- *)

\* Faulty variant of willTranslate: the translateFromSource flag is ignored.
willTranslateAlways(nSourceKeys, translateFromSource) ==
    nSourceKeys # 0

\* Whether addNewLanguage reaches its call of batchTranslate.
willTranslate(nSourceKeys, translateFromSource) ==
    nSourceKeys # 0 /\ translateFromSource

\* Faulty variant of translationFailed: the length of the result is not
\* compared.
translationFailedNullOnly(translatedTexts, nSourceTexts) ==
    translatedTexts.isNull

\* !translatedTexts || translatedTexts.length !== sourceTexts.length
translationFailed(translatedTexts, nSourceTexts) ==
    translatedTexts.isNull \/ Len(translatedTexts.texts) # nSourceTexts

\* Faulty variant of newLanguageTranslations: the keys are sorted before the
\* texts are paired with them.
newLanguageTranslationsSorted(sourceKeys, texts) ==
    setPairs(EmptyObj, sortKeys(sourceKeys), texts, 1)

\* sourceKeys.forEach((key, index) => setNestedProperty(newTranslations, ...))
newLanguageTranslations(sourceKeys, texts) ==
    setPairs(EmptyObj, sourceKeys, texts, 1)

addNewLanguage(langCode, translateFromSource) ==
    LET error == IF \E i \in 1..Len(config.languages) : config.languages[i] = langCode
                 THEN "LanguageExists"
                 ELSE IF ~LangCodeFormatOK(langCode) THEN "InvalidCode"
                 ELSE "none"
        updatedConfig == [config EXCEPT !.languages = Append(@, langCode)]
        sourceTranslations == loadTranslations(files, config.sourceLanguage)
        flatSourceTranslations == flattenObject(sourceTranslations)
        sourceKeys == [i \in 1..Len(flatSourceTranslations) |-> flatSourceTranslations[i].k]
        sourceTexts == [i \in 1..Len(flatSourceTranslations) |-> flatSourceTranslations[i].v.val]
        unloadable == loadThrows(files, config.sourceLanguage)
        called == /\ error = "none"
                  /\ ~unloadable
                  /\ willTranslate(Len(sourceKeys), translateFromSource)
        io0 == <<Event("load", config.sourceLanguage, <<>>, TRUE, <<>>, 0)>>
    IN  /\ ncmds < MaxCmds
        /\ \E shape \in (IF called THEN BatchShapes ELSE {"same"}) :
             LET translatedTexts == batchResult(shape, Len(sourceTexts))
                 failed == translationFailed(translatedTexts, Len(sourceTexts))
                 set == newLanguageTranslations(sourceKeys, translatedTexts.texts)
                 io1 == IF called
                        THEN Append(io0, Event("translate", langCode, <<>>,
                                               ~translatedTexts.isNull,
                                               translatedTexts.texts,
                                               Len(sourceTexts)))
                        ELSE io0
                 saved == Append(io1, Event("save", langCode, <<>>, TRUE, <<>>, 0))
             IN  IF error # "none"
                 THEN /\ UNCHANGED <<files, config>>
                      /\ io' = <<>>
                      /\ last' = [NoCommand EXCEPT !.op = "addLanguage",
                                     !.langCode = langCode,
                                     !.translateFromSource = translateFromSource,
                                     !.error = error]
                 ELSE IF unloadable
                 THEN /\ config' = updatedConfig
                      /\ UNCHANGED files
                      /\ io' = LoadFailed(Run(files), config.sourceLanguage).io
                      /\ last' = [NoCommand EXCEPT !.op = "addLanguage",
                                     !.langCode = langCode,
                                     !.translateFromSource = translateFromSource,
                                     !.error = "LoadError"]
                 ELSE IF called /\ ~failed /\ set.threw
                 THEN /\ config' = updatedConfig
                      /\ UNCHANGED files
                      /\ io' = io1
                      /\ last' = [NoCommand EXCEPT !.op = "addLanguage",
                                     !.langCode = langCode,
                                     !.translateFromSource = translateFromSource,
                                     !.error = "TypeError"]
                 ELSE IF called /\ ~failed
                 THEN /\ config' = updatedConfig
                      /\ files' = saveTranslations(files, langCode,
                                                   sortObjectRecursively(set.obj))
                      /\ io' = saved
                      /\ last' = [NoCommand EXCEPT !.op = "addLanguage",
                                     !.langCode = langCode,
                                     !.translateFromSource = translateFromSource,
                                     !.keysCount = Len(sourceKeys),
                                     !.translated = TRUE]
                 ELSE /\ config' = updatedConfig
                      /\ files' = saveTranslations(files, langCode,
                                                   sortObjectRecursively(EmptyObj))
                      /\ io' = saved
                      /\ last' = [NoCommand EXCEPT !.op = "addLanguage",
                                     !.langCode = langCode,
                                     !.translateFromSource = translateFromSource,
                                     !.keysCount = 0,
                                     !.translated = FALSE,
                                     !.errorFlag = called]
        /\ pre' = [files |-> files, config |-> config]
        /\ ncmds' = ncmds + 1
        /\ UNCHANGED call

(* ----------------------------- specification -------------------------- *)

Next ==
    \/ \E key \in Paths, sourceText \in SourceTexts, force \in BOOLEAN, interactive \in BOOLEAN :
          addTranslation(key, sourceText, force, interactive)
    \/ \E translationPairs \in BatchInputs, force \in BOOLEAN, interactive \in BOOLEAN :
          batchAddTranslations(translationPairs, force, interactive)
    \/ \E oldKey \in Paths, newKey \in Paths \cup {PaBang}, force \in BOOLEAN :
          renameTranslationKey(oldKey, newKey, force)
    \/ \E key \in Paths : removeTranslationKey(key)
    \/ \E langCode \in NewCodes, translateFromSource \in BOOLEAN :
          addNewLanguage(langCode, translateFromSource)

Spec == Init /\ [][Next]_vars

\* The commands started with catalog files that may fail to load: each
\* language has a file that is corrupt or holds a catalog, or (pt-pt) none.
LoadFiles ==
    [{EnUs} -> {Corrupt, LeafCatalog, NestedCatalog}]
    \cup [{EnUs, PtPt} -> {Corrupt, LeafCatalog, NestedCatalog}]

LoadInit ==
    /\ config = [languages |-> <<EnUs, PtPt>>, sourceLanguage |-> PtPt]
    /\ files \in LoadFiles
    /\ pre = [files |-> files, config |-> config]
    /\ last = NoCommand
    /\ io = <<>>
    /\ ncmds = 0
    /\ call = NoCall

LoadSpec == LoadInit /\ [][Next]_vars

\* {"9": "y", "10": "x"}: the file the tool writes after the keys 10 and 9
\* (both pass the key format check) were added.
NumberCatalog == Obj(<<KV(<<"9">>, Str("y")), KV(<<"1", "0">>, Str("x"))>>)

\* The commands started with catalog files that hold keys made of digits.
NumberFiles ==
    [{EnUs} -> {NumberCatalog, LeafCatalog}]
    \cup [{EnUs, PtPt} -> {NumberCatalog, LeafCatalog, UnsortedCatalog}]

NumberInit ==
    /\ config = [languages |-> <<EnUs, PtPt>>, sourceLanguage |-> PtPt]
    /\ files \in NumberFiles
    /\ pre = [files |-> files, config |-> config]
    /\ last = NoCommand
    /\ io = <<>>
    /\ ncmds = 0
    /\ call = NoCall

NumberSpec == NumberInit /\ [][Next]_vars

\* {b: "y"}
OneLeafCatalog == Obj(<<KV(Pb, Str("y"))>>)

\* {a: {}, b: "y"}: what removeTranslationKey makes of
\* {a: {b: {c: "z"}}, b: "y"} when a.b.c is removed.
HuskLeafCatalog == Obj(<<KV(Pa, EmptyObj), KV(Pb, Str("y"))>>)

\* The commands started with catalog files of which some have the same
\* flattened keys and differ in their empty mappings.
AlignFiles ==
    [{EnUs} -> {OneLeafCatalog, HuskLeafCatalog, UnsortedCatalog}]
    \cup [{EnUs, PtPt} -> {OneLeafCatalog, HuskLeafCatalog, UnsortedCatalog}]

AlignInit ==
    /\ config = [languages |-> <<EnUs, PtPt>>, sourceLanguage |-> PtPt]
    /\ files \in AlignFiles
    /\ pre = [files |-> files, config |-> config]
    /\ last = NoCommand
    /\ io = <<>>
    /\ ncmds = 0
    /\ call = NoCall

AlignSpec == AlignInit /\ [][Next]_vars

(* ------------- calls of the functions of utils/object.js -------------- *)

\* The number of properties of a value, at all levels.
RECURSIVE CountEntries(_)
CountEntries(v) ==
    IF v.kind # "object" \/ v.kids = <<>> THEN 0
    ELSE 1 + CountEntries(Head(v.kids).v) + CountEntries(Obj(Tail(v.kids)))

\* {a: x, b: y}, without the key whose value is undefined.
TreeOf(x, y) ==
    Obj((IF x = Undefined THEN <<>> ELSE <<KV(Pa, x)>>)
        \o (IF y = Undefined THEN <<>> ELSE <<KV(Pb, y)>>))

\* The trees over the keys a and b with at most n properties, whose leaves
\* are strings; mappings may be empty.
RECURSIVE TreesUpTo(_)
TreesUpTo(n) ==
    IF n = 0 THEN {EmptyObj}
    ELSE LET parts == {Undefined, Str("x")} \cup TreesUpTo(n - 1)
         IN  {t \in {TreeOf(x, y) : x \in parts, y \in parts} : CountEntries(t) <= n}

\* The text of a string of characters.
RECURSIVE Text(_)
Text(chars) == IF chars = <<>> THEN "" ELSE Head(chars) \o Text(Tail(chars))

\* The tree v with every leaf replaced by the text of its own path, so that
\* no two leaves hold the same value.
RECURSIVE Label(_, _)
Label(v, prefix) ==
    IF v.kind # "object" THEN Str(Text(prefix))
    ELSE Obj([i \in 1..Len(v.kids) |->
                KV(v.kids[i].k,
                   Label(v.kids[i].v,
                         IF prefix = <<>> THEN v.kids[i].k
                         ELSE prefix \o <<".">> \o v.kids[i].k))])

Trees(n) == {Label(t, <<>>) : t \in TreesUpTo(n)}

\* Trees with leaves that are not texts: an array, null and the empty string;
\* {a: ["q", "p"], b: {b: null, a: ""}} and {b: {a: ["q"]}, a: {}}.
OddTrees ==
    { Obj(<<KV(Pa, Arr(<<Str("q"), Str("p")>>)),
            KV(Pb, Obj(<<KV(Pb, Null), KV(Pa, Str(""))>>))>>),
      Obj(<<KV(Pb, Obj(<<KV(Pa, Arr(<<Str("q")>>))>>)), KV(Pa, EmptyObj)>>) }

\* The tree v with ka for its keys a and kb for its keys b, as the object
\* that results from creating the keys in the order of v.
RECURSIVE Rekey(_, _, _)
RECURSIVE RekeyFrom(_, _, _, _)
RekeyFrom(kids, ka, kb, acc) ==
    IF kids = <<>> THEN acc
    ELSE RekeyFrom(Tail(kids), ka, kb,
                   PutProp(acc, IF Head(kids).k = Pa THEN ka ELSE kb,
                           Rekey(Head(kids).v, ka, kb)))

Rekey(v, ka, kb) ==
    IF v.kind # "object" THEN v ELSE RekeyFrom(v.kids, ka, kb, EmptyObj)

\* Other keys for a and b: b and a (keys created in descending order), "10"
\* and "9", "-1" and "1".
KeyPairs == { <<Pb, Pa>>, <<<<"1", "0">>, <<"9">>>>, <<<<"-", "1">>, <<"1">>>> }

RekeyedTrees(trees) == {Rekey(t, kp[1], kp[2]) : t \in trees, kp \in KeyPairs}

\* The dotted paths over the segments a and b with at most n segments.
RECURSIVE PathsUpTo(_)
PathsUpTo(n) ==
    IF n = 1 THEN {Pa, Pb}
    ELSE PathsUpTo(n - 1)
         \cup {p \o <<".">> \o seg : p \in PathsUpTo(n - 1), seg \in {Pa, Pb}}

TreePaths == PathsUpTo(MaxSegments)

\* Values handed to setNestedProperty: a text and a mapping.
TreeValues == {Str("v"), Obj(<<KV(Pa, Str("w"))>>)}

\* The arguments of the calls: a tree, a path and a value for
\* setNestedProperty, a tree and a path for the other functions that take a
\* path, a tree alone for the rest.
CallInputs(trees) ==
    {[NoCall EXCEPT !.tree = t, !.path = p, !.value = v] :
        t \in trees, p \in TreePaths, v \in TreeValues}
    \cup {[NoCall EXCEPT !.tree = t, !.path = p] : t \in trees, p \in TreePaths}
    \cup {[NoCall EXCEPT !.tree = t] : t \in trees \cup OddTrees \cup RekeyedTrees(trees)}

TreeInit ==
    /\ config = [languages |-> <<EnUs, PtPt>>, sourceLanguage |-> PtPt]
    /\ files = [c \in {} |-> EmptyObj]
    /\ pre = [files |-> files, config |-> config]
    /\ last = NoCommand
    /\ io = <<>>
    /\ ncmds = 0
    /\ \E trees \in {Trees(MaxEntries)} : call \in CallInputs(trees)

callSetNestedProperty ==
    /\ call.fn = "none"
    /\ call.path # <<>>
    /\ call.value # Undefined
    /\ LET set == setNestedProperty(call.tree, call.path, call.value)
       IN  call' = [call EXCEPT !.fn = "set", !.out = set.obj, !.threw = set.threw]
    /\ UNCHANGED <<files, config, pre, last, io, ncmds>>

callRemoveNestedProperty ==
    /\ call.fn = "none"
    /\ call.path # <<>>
    /\ call.value = Undefined
    /\ call' = [call EXCEPT !.fn = "remove",
                            !.out = removeNestedProperty(call.tree, call.path)]
    /\ UNCHANGED <<files, config, pre, last, io, ncmds>>

callFlattenObject ==
    /\ call.fn = "none"
    /\ call.path = <<>>
    /\ call' = [call EXCEPT !.fn = "flatten", !.out = Obj(flattenObject(call.tree))]
    /\ UNCHANGED <<files, config, pre, last, io, ncmds>>

\* The orders in which n entries can be taken.
Orders(n) ==
    {order \in [1..n -> 1..n] : \A i \in 1..n : \E j \in 1..n : order[j] = i}

\* entries.forEach(e => setNestedProperty(obj, e.k, e.v)), the entries taken in
\* the given order, from the i-th on.
RECURSIVE setEntries(_, _, _, _)
setEntries(obj, entries, order, i) ==
    IF i > Len(entries) THEN [threw |-> FALSE, obj |-> obj]
    ELSE LET set == setNestedProperty(obj, entries[order[i]].k, entries[order[i]].v)
         IN  IF set.threw THEN [threw |-> TRUE, obj |-> obj]
             ELSE setEntries(set.obj, entries, order, i + 1)

\* A tree is built from a flattened object, its entries taken in any order,
\* and flattened again; value keeps the tree that was built.
callSetFlattened ==
    /\ call.fn = "flatten"
    /\ \E order \in Orders(Len(call.out.kids)) :
          LET built == setEntries(EmptyObj, call.out.kids, order, 1)
          IN  call' = [call EXCEPT !.fn = "unflatten",
                                  !.path = [i \in 1..Len(order) |-> order[i]],
                                  !.value = built.obj,
                                  !.threw = built.threw,
                                  !.out = Obj(flattenObject(built.obj))]
    /\ UNCHANGED <<files, config, pre, last, io, ncmds>>

callSortObjectRecursively ==
    /\ call.fn = "none"
    /\ call.path = <<>>
    /\ call' = [call EXCEPT !.fn = "sort", !.out = sortObjectRecursively(call.tree)]
    /\ UNCHANGED <<files, config, pre, last, io, ncmds>>

\* sortObjectRecursively applied to its own result; value keeps the argument.
callSortAgain ==
    /\ call.fn = "sort"
    /\ call' = [call EXCEPT !.fn = "sortAgain", !.value = call.out,
                            !.out = sortObjectRecursively(call.out)]
    /\ UNCHANGED <<files, config, pre, last, io, ncmds>>

TreeNext ==
    \/ callSetNestedProperty
    \/ callRemoveNestedProperty
    \/ callFlattenObject
    \/ callSetFlattened
    \/ callSortObjectRecursively
    \/ callSortAgain

TreeSpec == TreeInit /\ [][TreeNext]_vars

(* ----------------------------- verification.js ------------------------ *)

\* keys.forEach(key => allKeys.add(key)) on a Set kept as the list of its
\* members in the order of their insertion.
RECURSIVE addAll(_, _)
addAll(allKeys, keys) ==
    IF keys = <<>> THEN allKeys
    ELSE addAll(IF \E i \in 1..Len(allKeys) : allKeys[i] = Head(keys)
                THEN allKeys ELSE Append(allKeys, Head(keys)),
                Tail(keys))

\* The loop of getAllKeys over the languages from the i-th on.
RECURSIVE collectKeys(_, _, _, _)
collectKeys(fs, cfg, i, allKeys) ==
    IF i > Len(cfg.languages) THEN allKeys
    ELSE collectKeys(fs, cfg, i + 1,
                     addAll(allKeys,
                            Keys(Obj(flattenObject(loadTranslations(fs, cfg.languages[i]))))))

\* Faulty variant of getAllKeys: the keys of the source language alone.
getAllKeysOfSource(fs, cfg) ==
    sortKeys(Keys(Obj(flattenObject(loadTranslations(fs, cfg.sourceLanguage)))))

getAllKeys(fs, cfg) == sortKeys(collectKeys(fs, cfg, 1, <<>>))

\* Faulty variant of getMissingKeys: the test of the filter is not negated.
getPresentKeys(fs, langCode, allKeys) ==
    LET existingKeys == Keys(Obj(flattenObject(loadTranslations(fs, langCode))))
    IN  SelectSeq(allKeys, LAMBDA key :
            \E i \in 1..Len(existingKeys) : existingKeys[i] = key)

getMissingKeys(fs, langCode, allKeys) ==
    LET existingKeys == Keys(Obj(flattenObject(loadTranslations(fs, langCode))))
    IN  SelectSeq(allKeys, LAMBDA key :
            ~\E i \in 1..Len(existingKeys) : existingKeys[i] = key)

getExtraKeys(fs, langCode, allKeys) ==
    LET existingKeys == Keys(Obj(flattenObject(loadTranslations(fs, langCode))))
    IN  SelectSeq(existingKeys, LAMBDA key :
            ~\E i \in 1..Len(allKeys) : allKeys[i] = key)

Issue(type, langCode, keys) == [type |-> type, langCode |-> langCode, keys |-> keys]

\* The loop of verifyTranslations over the languages from the i-th on.
RECURSIVE verifyLoop(_, _, _, _, _)
verifyLoop(fs, cfg, allKeys, i, issues) ==
    IF i > Len(cfg.languages) THEN issues
    ELSE LET langCode == cfg.languages[i]
             missingKeys == getMissingKeys(fs, langCode, allKeys)
             extraKeys == getExtraKeys(fs, langCode, allKeys)
         IN  verifyLoop(fs, cfg, allKeys, i + 1,
                        issues
                        \o (IF Len(missingKeys) > 0
                            THEN <<Issue("missing", langCode, missingKeys)>> ELSE <<>>)
                        \o (IF Len(extraKeys) > 0
                            THEN <<Issue("extra", langCode, extraKeys)>> ELSE <<>>))

\* The value verifyTranslations returns; hasAllKeys tells whether the fields
\* totalKeys and allKeys are there.
verifyResult(fs, cfg) ==
    LET allKeys == getAllKeys(fs, cfg)
        issues == verifyLoop(fs, cfg, allKeys, 1, <<>>)
        hasIssues == \E i \in 1..Len(issues) : issues[i].type = "missing"
    IN  IF Len(allKeys) = 0
        THEN [isValid |-> TRUE, issues |-> <<>>, hasAllKeys |-> FALSE,
              totalKeys |-> 0, allKeys |-> <<>>]
        ELSE [isValid |-> ~hasIssues, issues |-> issues, hasAllKeys |-> TRUE,
              totalKeys |-> Len(allKeys), allKeys |-> allKeys]

\* The decimal digits of a natural number.
RECURSIVE Digits(_)
Digits(n) ==
    IF n < 10 THEN <<CHOOSE c \in Digit : DigitValue(c) = n>>
    ELSE Append(Digits(n \div 10), CHOOSE c \in Digit : DigitValue(c) = n % 10)

\* (num / den * 100).toFixed(1) for 0 <= num <= den, den > 0: the nearest
\* number of tenths, the larger one of two equally near, written with one
\* digit after the point.
toFixed1(num, den) ==
    LET n == (2000 * num + den) \div (2 * den)
    IN  Digits(n \div 10) \o <<".">> \o Digits(n % 10)

\* Faulty variant of sourceKeysOf: the reference is the union of all catalogs.
sourceKeysFromAll(fs, cfg) == getAllKeys(fs, cfg)

\* Object.keys(flattenObject(sourceTranslations))
sourceKeysOf(fs, cfg) ==
    Keys(Obj(flattenObject(loadTranslations(fs, cfg.sourceLanguage))))

\* The loop of findIncompleteTranslations over the languages from the i-th on.
RECURSIVE incompleteLoop(_, _, _, _, _)
incompleteLoop(fs, cfg, sourceKeys, i, incompleteLanguages) ==
    IF i > Len(cfg.languages) THEN incompleteLanguages
    ELSE LET langCode == cfg.languages[i]
             missingKeys == getMissingKeys(fs, langCode, sourceKeys)
         IN  incompleteLoop(fs, cfg, sourceKeys, i + 1,
                 IF langCode # cfg.sourceLanguage /\ Len(missingKeys) > 0
                 THEN Append(incompleteLanguages,
                        [langCode |-> langCode,
                         missingKeys |-> missingKeys,
                         missingCount |-> Len(missingKeys),
                         completeness |-> toFixed1(Len(sourceKeys) - Len(missingKeys),
                                                   Len(sourceKeys))])
                 ELSE incompleteLanguages)

\* The value findIncompleteTranslations returns; hasTotal tells whether the
\* field totalLanguages is there.
incompleteResult(fs, cfg) ==
    LET sourceKeys == sourceKeysOf(fs, cfg)
    IN  IF Len(sourceKeys) = 0
        THEN [sourceKeys |-> <<>>, incompleteLanguages |-> <<>>,
              hasTotal |-> FALSE, totalLanguages |-> 0]
        ELSE [sourceKeys |-> sourceKeys,
              incompleteLanguages |-> incompleteLoop(fs, cfg, sourceKeys, 1, <<>>),
              hasTotal |-> TRUE, totalLanguages |-> Len(cfg.languages) - 1]

\* ((allKeys.length - missingKeys.length) / allKeys.length * 100).toFixed(1):
\* 0 / 0 is NaN, and NaN.toFixed(1) is the text "NaN".
completenessOf(present, total) ==
    IF total = 0 THEN <<"N", "a", "N">> ELSE toFixed1(present, total)

\* The loop of generateMissingTranslationsReport over the languages from the
\* i-th on; report.languages as the list of its entries in insertion order.
RECURSIVE reportLoop(_, _, _, _, _)
reportLoop(fs, cfg, allKeys, i, languages) ==
    IF i > Len(cfg.languages) THEN languages
    ELSE LET langCode == cfg.languages[i]
             missingKeys == getMissingKeys(fs, langCode, allKeys)
             flatTranslations == flattenObject(loadTranslations(fs, langCode))
         IN  reportLoop(fs, cfg, allKeys, i + 1,
                 Append(languages,
                        [langCode |-> langCode,
                         totalKeys |-> Len(flatTranslations),
                         missingKeys |-> missingKeys,
                         missingCount |-> Len(missingKeys),
                         completeness |-> completenessOf(Len(allKeys) - Len(missingKeys),
                                                         Len(allKeys))]))

\* The report generateMissingTranslationsReport returns (its timestamp left
\* out), with the default options: printed to the console, no file written.
missingTranslationsReport(fs, cfg) ==
    LET allKeys == getAllKeys(fs, cfg)
    IN  [totalKeys |-> Len(allKeys),
         languages |-> reportLoop(fs, cfg, allKeys, 1, <<>>)]

(* -------------------- commands.js: generateMissingKeysJSON ------------- *)

\* Faulty variant of orEmpty: every missing key gets the empty text.
alwaysEmpty(value) == Str("")

\* value || ''
orEmpty(value) ==
    IF value.kind \in {"null", "undefined"} \/ value = Str("") THEN Str("") ELSE value

\* missingKeys.forEach(key => setNestedProperty(missingTranslations, key,
\* flatSourceTranslations[key] || '')), from the i-th key on.
RECURSIVE setMissing(_, _, _, _)
setMissing(missingTranslations, flatSourceTranslations, missingKeys, i) ==
    IF i > Len(missingKeys) THEN [threw |-> FALSE, obj |-> missingTranslations]
    ELSE LET key == missingKeys[i]
             sourceValue == orEmpty(Prop(Obj(flatSourceTranslations), key))
             set == setNestedProperty(missingTranslations, key, sourceValue)
         IN  IF set.threw THEN [threw |-> TRUE, obj |-> missingTranslations]
             ELSE setMissing(set.obj, flatSourceTranslations, missingKeys, i + 1)

\* The value generateMissingKeysJSON returns, or threw when it raises.
missingKeysJSON(fs, cfg, targetLanguage) ==
    LET flatSourceTranslations == flattenObject(loadTranslations(fs, cfg.sourceLanguage))
        sourceKeys == Keys(Obj(flatSourceTranslations))
        targetKeys == Keys(Obj(flattenObject(loadTranslations(fs, targetLanguage))))
        missingKeys == SelectSeq(sourceKeys, LAMBDA key :
                           ~\E i \in 1..Len(targetKeys) : targetKeys[i] = key)
        built == setMissing(EmptyObj, flatSourceTranslations, missingKeys, 1)
    IN  IF Len(sourceKeys) = 0 \/ Len(missingKeys) = 0
        THEN [threw |-> FALSE, obj |-> EmptyObj]
        ELSE IF built.threw THEN built
        ELSE [threw |-> FALSE, obj |-> sortObjectRecursively(built.obj)]

(* ------------------ verification.js: catalogs and commands ------------- *)

\* {a: {b: "x", c: ""}, b: "z"}
ThreeKeyCatalog ==
    Obj(<<KV(Pa, Obj(<<KV(Pb, Str("x")), KV(Pc, Str(""))>>)), KV(Pb, Str("z"))>>)

\* {a: {}}, as a removal leaves it
HuskCatalog == Obj(<<KV(Pa, EmptyObj)>>)

\* {b: "y", c: "w"}
TwoLeafCatalog == Obj(<<KV(Pb, Str("y")), KV(Pc, Str("w"))>>)

VerifyCatalogs ==
    {EmptyObj, LeafCatalog, NestedCatalog, UnsortedCatalog, ThreeKeyCatalog,
     TwoLeafCatalog, HuskCatalog}

\* Three configured languages; de-de may have no catalog file.
VerifyFiles ==
    [{EnUs, PtPt, DeDe} -> VerifyCatalogs] \cup [{EnUs, PtPt} -> VerifyCatalogs]

VerifyInit ==
    /\ config = [languages |-> <<EnUs, PtPt, DeDe>>, sourceLanguage |-> PtPt]
    /\ files \in VerifyFiles
    /\ pre = [files |-> files, config |-> config]
    /\ last = NoCommand
    /\ io = <<>>
    /\ ncmds = 0
    /\ call = NoCall

verifyTranslations ==
    /\ call.fn = "none"
    /\ call' = [call EXCEPT !.fn = "verifyTranslations",
                            !.out = verifyResult(files, config)]
    /\ UNCHANGED <<files, config, pre, last, io, ncmds>>

findIncompleteTranslations ==
    /\ call.fn = "none"
    /\ call' = [call EXCEPT !.fn = "findIncompleteTranslations",
                            !.out = incompleteResult(files, config)]
    /\ UNCHANGED <<files, config, pre, last, io, ncmds>>

generateMissingKeysJSON ==
    /\ call.fn = "none"
    /\ \E i \in 1..Len(config.languages) :
          LET targetLanguage == config.languages[i]
              result == missingKeysJSON(files, config, targetLanguage)
          IN  call' = [call EXCEPT !.fn = "generateMissingKeysJSON",
                                  !.path = targetLanguage,
                                  !.out = result.obj,
                                  !.threw = result.threw]
    /\ UNCHANGED <<files, config, pre, last, io, ncmds>>

generateMissingTranslationsReport ==
    /\ call.fn = "none"
    /\ call' = [call EXCEPT !.fn = "generateMissingTranslationsReport",
                            !.out = missingTranslationsReport(files, config)]
    /\ UNCHANGED <<files, config, pre, last, io, ncmds>>

VerifyNext ==
    \/ verifyTranslations
    \/ findIncompleteTranslations
    \/ generateMissingKeysJSON
    \/ generateMissingTranslationsReport

VerifySpec == VerifyInit /\ [][VerifyNext]_vars

(* --------------------- usage-scanner.js: the usage scan ---------------- *)

\* The character ` (a string of this language cannot hold it).
Backtick == "BACKTICK"

\* A pattern of TRANSLATION_PATTERNS: the text the call starts with, whether a
\* word boundary must precede it, and the characters that open and close the
\* key.
Pattern(head, boundary, quotes) ==
    [head |-> head, boundary |-> boundary, quotes |-> quotes]

TRANSLATION_PATTERNS ==
    << Pattern(<<"t">>, TRUE, {"'", "\"", Backtick}),
       Pattern(<<"t">>, TRUE, {Backtick}),
       Pattern(<<"$", "t">>, FALSE, {"'", "\"", Backtick}),
       Pattern(<<"i", "1", "8", "n", ".", "t">>, FALSE, {"'", "\"", Backtick}) >>

\* \w and \s over the characters of the scanned texts
WordChar == Lower \cup Upper \cup Digit \cup {"_"}

Space == {" ", "\n", "\t"}

\* The first position from p on that holds no white space.
RECURSIVE skipSpace(_, _)
skipSpace(content, p) ==
    IF p <= Len(content) /\ content[p] \in Space THEN skipSpace(content, p + 1) ELSE p

\* The first position from p on that holds one of the quotes, Len + 1 if none.
RECURSIVE nextQuote(_, _, _)
nextQuote(content, p, quotes) ==
    IF p > Len(content) \/ content[p] \in quotes THEN p
    ELSE nextQuote(content, p + 1, quotes)

\* The match of a pattern that starts at position p, if there is one: the
\* captured key and the position after the match.
matchAt(content, p, pattern) ==
    LET n == Len(pattern.head)
        open == skipSpace(content, p + n)
        quote == skipSpace(content, open + 1)
        close == nextQuote(content, quote + 1, pattern.quotes)
        ok == /\ p + n - 1 <= Len(content)
              /\ SubSeq(content, p, p + n - 1) = pattern.head
              /\ pattern.boundary => (p = 1 \/ content[p - 1] \notin WordChar)
              /\ open <= Len(content) /\ content[open] = "("
              /\ quote <= Len(content) /\ content[quote] \in pattern.quotes
              /\ close <= Len(content)
              /\ close > quote + 1
    IN  IF ok THEN [ok |-> TRUE, key |-> SubSeq(content, quote + 1, close - 1),
                    lastIndex |-> close + 1]
        ELSE [ok |-> FALSE, key |-> <<>>, lastIndex |-> p]

\* key.includes(marker)
includes(key, marker) ==
    \E i \in 1..(Len(key) - Len(marker) + 1) :
        SubSeq(key, i, i + Len(marker) - 1) = marker

\* The negation of the condition under which a key is added.
isDynamic(key) ==
    includes(key, <<"$", "{">>) \/ includes(key, <<"{", "{">>) \/ includes(key, <<"+">>)

\* keys.add(key) on a Set kept as the list of its members.
addKey(keys, key) ==
    IF \E i \in 1..Len(keys) : keys[i] = key THEN keys ELSE Append(keys, key)

\* while ((match = pattern.exec(content)) !== null), the search resumed at
\* lastIndex: exec finds the leftmost match that starts there or later.
RECURSIVE execLoop(_, _, _, _)
execLoop(content, pattern, lastIndex, keys) ==
    LET starts == {p \in lastIndex..Len(content) : matchAt(content, p, pattern).ok}
    IN  IF starts = {} THEN keys
        ELSE LET match == matchAt(content, CHOOSE p \in starts : \A q \in starts : p <= q,
                                  pattern)
                 found == IF ~isDynamic(match.key) THEN addKey(keys, match.key) ELSE keys
             IN  execLoop(content, pattern, match.lastIndex, found)

\* The loop over TRANSLATION_PATTERNS from the i-th pattern on.
RECURSIVE extractFrom(_, _, _)
extractFrom(content, i, keys) ==
    IF i > Len(TRANSLATION_PATTERNS) THEN keys
    ELSE extractFrom(content, i + 1, execLoop(content, TRANSLATION_PATTERNS[i], 1, keys))

extractTranslationKeys(content) == extractFrom(content, 1, <<>>)

\* A file to scan: its content, and whether reading it fails.
SourceFile(content, error) == [content |-> content, error |-> error]

scanFile(file) ==
    IF file.error THEN [keys |-> <<>>, error |-> TRUE]
    ELSE [keys |-> extractTranslationKeys(file.content), error |-> FALSE]

\* keyUsageMap as the list of its entries [key, files] in insertion order:
\* if (!keyUsageMap.has(key)) keyUsageMap.set(key, []);
\* keyUsageMap.get(key).push(filePath)
pushUsage(keyUsageMap, key, filePath) ==
    IF \E j \in 1..Len(keyUsageMap) : keyUsageMap[j].key = key
    THEN [j \in 1..Len(keyUsageMap) |->
            IF keyUsageMap[j].key = key
            THEN [keyUsageMap[j] EXCEPT !.files = Append(@, filePath)]
            ELSE keyUsageMap[j]]
    ELSE Append(keyUsageMap, [key |-> key, files |-> <<filePath>>])

\* for (const key of result.keys), from the j-th key on; a file is named by
\* its place in filesToScan.
RECURSIVE trackKeys(_, _, _, _)
trackKeys(scan, keys, j, filePath) ==
    IF j > Len(keys) THEN scan
    ELSE trackKeys([scan EXCEPT !.usedKeys = addKey(@, keys[j]),
                                !.keyUsageMap = pushUsage(@, keys[j], filePath)],
                   keys, j + 1, filePath)

\* Faulty variant of scanStep: the loop ends at the first unreadable file.
scanStepStopping(scan, result, filePath) ==
    IF scan.errorFiles > 0 THEN scan
    ELSE IF result.error
    THEN [scan EXCEPT !.scannedFiles = @ + 1, !.errorFiles = @ + 1]
    ELSE trackKeys([scan EXCEPT !.scannedFiles = @ + 1], result.keys, 1, filePath)

\* One iteration of the loop of scanUnusedTranslations.
scanStep(scan, result, filePath) ==
    IF result.error
    THEN [scan EXCEPT !.scannedFiles = @ + 1, !.errorFiles = @ + 1]
    ELSE trackKeys([scan EXCEPT !.scannedFiles = @ + 1], result.keys, 1, filePath)

\* The loop of scanUnusedTranslations over the files from the i-th on.
RECURSIVE scanLoop(_, _, _)
scanLoop(filesToScan, i, scan) ==
    IF i > Len(filesToScan) THEN scan
    ELSE scanLoop(filesToScan, i + 1, scanStep(scan, scanFile(filesToScan[i]), i))

\* (usedKeysArray.length / allTranslationKeys.length) * 100, as the fraction
\* num / den.
usageRateOf(usedKeys, allTranslationKeys) ==
    [num |-> 100 * Len(usedKeys), den |-> Len(allTranslationKeys)]

\* Faulty variant of unusedKeysOf: the test of the filter is not negated.
keysInUse(allTranslationKeys, usedKeys) ==
    SelectSeq(allTranslationKeys, LAMBDA key :
        \E i \in 1..Len(usedKeys) : usedKeys[i] = key)

\* allTranslationKeys.filter(key => !usedKeys.has(key))
unusedKeysOf(allTranslationKeys, usedKeys) ==
    SelectSeq(allTranslationKeys, LAMBDA key :
        ~\E i \in 1..Len(usedKeys) : usedKeys[i] = key)

\* The value scanUnusedTranslations returns; scanned tells whether the files
\* were scanned, that is whether the fields usageRate, keyUsageMap,
\* scannedFiles and errorFiles are there.
scanResult(fs, cfg, filesToScan) ==
    LET allTranslationKeys ==
            Keys(Obj(flattenObject(loadTranslations(fs, cfg.sourceLanguage))))
        scan == scanLoop(filesToScan, 1,
                         [usedKeys |-> <<>>, keyUsageMap |-> <<>>,
                          scannedFiles |-> 0, errorFiles |-> 0])
        early == [usedKeys |-> <<>>, unusedKeys |-> <<>>, totalKeys |-> 0,
                  scanned |-> FALSE, usageRate |-> [num |-> 0, den |-> 1],
                  keyUsageMap |-> <<>>, scannedFiles |-> 0, errorFiles |-> 0]
    IN  IF Len(allTranslationKeys) = 0
        THEN early
        ELSE IF Len(filesToScan) = 0
        THEN [early EXCEPT !.unusedKeys = allTranslationKeys,
                           !.totalKeys = Len(allTranslationKeys)]
        ELSE [usedKeys |-> scan.usedKeys,
              unusedKeys |-> unusedKeysOf(allTranslationKeys, scan.usedKeys),
              totalKeys |-> Len(allTranslationKeys),
              scanned |-> TRUE,
              usageRate |-> usageRateOf(scan.usedKeys, allTranslationKeys),
              keyUsageMap |-> scan.keyUsageMap,
              scannedFiles |-> scan.scannedFiles,
              errorFiles |-> scan.errorFiles]

\* A line of scanned text: the text, the key it refers to by a literal (empty
\* when it refers to none), and whether it is a call of t with a key built
\* at run time.
Usage(text, key, dynamic) == [text |-> text, key |-> key, dynamic |-> dynamic]

Usages ==
    {
     \* t('a')
     Usage(<<"t", "(", "'", "a", "'", ")">>,
           <<"a">>, FALSE),
     \* t(`b`)
     Usage(<<"t", "(", Backtick, "b", Backtick, ")">>,
           <<"b">>, FALSE),
     \* $t("a.b")
     Usage(<<"$", "t", "(", "\"", "a", ".", "b", "\"", ")">>,
           <<"a", ".", "b">>, FALSE),
     \* i18n.t('b')
     Usage(<<"i", "1", "8", "n", ".", "t", "(", "'", "b", "'", ")">>,
           <<"b">>, FALSE),
     \* t ( 'a.c' )
     Usage(<<"t", " ", "(", " ", "'", "a", ".", "c", "'", " ", ")">>,
           <<"a", ".", "c">>, FALSE),
     \* at('b')
     Usage(<<"a", "t", "(", "'", "b", "'", ")">>,
           <<>>, FALSE),
     \* t(x)
     Usage(<<"t", "(", "x", ")">>,
           <<>>, FALSE),
     \* t(`a.${x}.b`)
     Usage(<<"t", "(", Backtick, "a", ".", "$", "{", "x", "}", ".", "b", Backtick, ")">>,
           <<>>, TRUE),
     \* t('a.' + x + '.b')
     Usage(<<"t", "(", "'", "a", ".", "'", " ", "+", " ", "x", " ", "+", " ", "'", ".", "b", "'", ")">>,
           <<>>, TRUE),
     \* t('a.{{x}}.b')
     Usage(<<"t", "(", "'", "a", ".", "{", "{", "x", "}", "}", ".", "b", "'", ")">>,
           <<>>, TRUE)
    }

\* The lists of at most n lines.
RECURSIVE LinesUpTo(_)
LinesUpTo(n) ==
    IF n = 0 THEN {<<>>}
    ELSE LinesUpTo(n - 1)
         \cup {Append(lines, u) : lines \in {l \in LinesUpTo(n - 1) : Len(l) = n - 1},
                                  u \in Usages}

\* lines.join('\n')
RECURSIVE joinLines(_)
joinLines(lines) ==
    IF lines = <<>> THEN <<>>
    ELSE IF Len(lines) = 1 THEN lines[1].text
    ELSE lines[1].text \o <<"\n">> \o joinLines(Tail(lines))

\* The ways the lines lie in the files of the scanned directory: no file at
\* all, one file, or the first line in a file of its own, each of the two
\* files readable or not.
FilesOf(lines) ==
    IF lines = <<>> THEN {<<>>, <<SourceFile(<<>>, FALSE)>>}
    ELSE {<<SourceFile(joinLines(lines), FALSE)>>}
         \cup {<<SourceFile(lines[1].text, e[1]),
                  SourceFile(joinLines(Tail(lines)), e[2])>> :
                 e \in {x \in BOOLEAN \X BOOLEAN : Len(lines) > 1}}

ScanCatalogs == {EmptyObj, LeafCatalog, UnsortedCatalog, ThreeKeyCatalog}

\* The scan is given the lines (kept in call.tree) as the files of call.value.
ScanInit ==
    /\ config = [languages |-> <<EnUs, PtPt>>, sourceLanguage |-> PtPt]
    /\ files \in [{PtPt} -> ScanCatalogs]
    /\ pre = [files |-> files, config |-> config]
    /\ last = NoCommand
    /\ io = <<>>
    /\ ncmds = 0
    /\ \E lines \in LinesUpTo(MaxLines) :
          \E filesToScan \in FilesOf(lines) :
              call = [NoCall EXCEPT !.tree = lines, !.value = filesToScan]

scanUnusedTranslations ==
    /\ call.fn = "none"
    /\ call' = [call EXCEPT !.fn = "scanUnusedTranslations",
                            !.out = scanResult(files, config, call.value)]
    /\ UNCHANGED <<files, config, pre, last, io, ncmds>>

ScanNext ==
    \/ scanUnusedTranslations

ScanSpec == ScanInit /\ [][ScanNext]_vars

(* ---------------------- vocabulary of the properties ------------------ *)

LanguagesOf(cfg) == {cfg.languages[i] : i \in 1..Len(cfg.languages)}

PositionOf(cfg, code) == CHOOSE i \in 1..Len(cfg.languages) : cfg.languages[i] = code

\* The persisted catalog of a language (no file reads as the empty tree).
CatalogOf(fs, code) == IF code \in DOMAIN fs THEN fs[code] ELSE EmptyObj

Resolve(fs, code, path) == getRec(CatalogOf(fs, code), split(path))

Resolves(fs, code, path) == Resolve(fs, code, path) # Undefined

\* The flattened catalog as a set of [k, v] entries.
FlatSet(fs, code) ==
    LET flat == flattenRec(CatalogOf(fs, code).kids, <<>>, <<>>)
    IN  {flat[i] : i \in 1..Len(flat)}

Happened(ev, code) == \E i \in 1..Len(io) : io[i].ev = ev /\ io[i].lang = code

Saved(code) == Happened("save", code)

NoWrite == files = pre.files /\ \A i \in 1..Len(io) : io[i].ev # "save"

IsPrefix(p, q) == Len(p) <= Len(q) /\ SubSeq(q, 1, Len(p)) = p

\* Path k lies beneath path p in a tree.
Beneath(p, k) == IsPrefix(p \o <<".">>, k)

\* The keys an add or batch-add command was given.
CommandKeys ==
    IF last.op = "add" THEN {last.key}
    ELSE IF last.op = "batch" THEN {last.pairs[i].key : i \in 1..Len(last.pairs)}
    ELSE {}

Answered(code, key, answer) ==
    \E i \in 1..Len(io) :
        io[i].ev = "prompt" /\ io[i].lang = code /\ io[i].key = key /\ io[i].ok = answer

\* The conflict policy lets the command overwrite key in the catalog of code.
Allowed(code, key) ==
    last.force \/ (~last.force /\ last.interactive /\ Answered(code, key, TRUE))

\* The command stored a new value at key in the saved catalog of code.
Overwritten(code, key) ==
    /\ Saved(code)
    /\ \E i \in 1..Len(io) : io[i].ev = "set" /\ io[i].lang = code /\ io[i].key = key

(* -------------------------------- claims ------------------------------ *)

\* C1: after addOrUpdateKey(path, sourceText) with force=true in which every
\* translation call succeeds, the catalog of every configured language
\* resolves path: to sourceText for the source language, to the text the
\* translation call returned for that language otherwise.
C1_ForcedAddStoresInEveryLanguage ==
    (/\ last.op = "add"
     /\ last.force
     /\ \A i \in 1..Len(io) :
            io[i].ev = "translate" => io[i].ok /\ io[i].texts # <<"">>)
    => \A code \in LanguagesOf(pre.config) :
          IF code = pre.config.sourceLanguage
          THEN Resolve(files, code, last.key) = Str(last.text)
          ELSE \E i \in 1..Len(io) :
                  /\ io[i].ev = "translate" /\ io[i].lang = code
                  /\ Resolve(files, code, last.key) = Str(io[i].texts[1])

C3_TranslationFailureSkipsLanguage ==
    last.op \in {"add", "batch"} =>
        \A i \in 1..Len(io) :
            (/\ io[i].ev = "translate"
             /\ ~io[i].ok \/ (last.op = "batch" /\ Len(io[i].texts) # io[i].n))
            => /\ CatalogOf(files, io[i].lang) = CatalogOf(pre.files, io[i].lang)
               /\ last.error = "none"
               /\ \A code \in LanguagesOf(pre.config) :
                     PositionOf(pre.config, code) > PositionOf(pre.config, io[i].lang)
                     => Happened("load", code)

\* C4: renameKey and removeKey raise a precondition error and write nothing
\* when the key resolves in no configured language; renameKey also does so
\* when newPath resolves in some language and force is not set, or when
\* newPath does not match the key-path grammar.
C4_PreconditionErrorsWriteNothing ==
    LET keyNowhere == \A code \in LanguagesOf(pre.config) :
                          ~Resolves(pre.files, code, last.key)
        newSomewhere == \E code \in LanguagesOf(pre.config) :
                          Resolves(pre.files, code, last.newKey)
        raised == last.error \in {"KeyNotFound", "NewKeyExists", "InvalidFormat"}
    IN  /\ (last.op \in {"rename", "remove"} /\ keyNowhere) => (raised /\ NoWrite)
        /\ (last.op = "rename" /\ newSomewhere /\ ~last.force) => (raised /\ NoWrite)
        /\ (last.op = "rename" /\ ~KeyFormatOK(last.newKey))
           => (last.error = "InvalidFormat" /\ NoWrite)

\* C4 witness: a rename of a key that exists, refused because the new key
\* exists too and force is not set.
C4_Witness ==
    /\ last.op = "rename"
    /\ last.error = "NewKeyExists"
    /\ \E code \in LanguagesOf(pre.config) : Resolves(pre.files, code, last.key)
    /\ \E code \in LanguagesOf(pre.config) : Resolves(pre.files, code, last.newKey)

\* C5: renameKey is atomic across languages: when it ends, normally or with
\* an error, either every language in which oldPath resolved has been
\* rewritten or no catalog has been changed.
C5_RenameAtomicAcrossLanguages ==
    last.op = "rename" =>
        \/ \A code \in LanguagesOf(pre.config) :
              Resolves(pre.files, code, last.key) => Saved(code)
        \/ NoWrite

\* C6: after a successful renameKey(oldPath, newPath), in every language
\* where oldPath resolved to v, newPath resolves to v and oldPath (when
\* different) no longer resolves; the other languages are not rewritten.
C6_RenameMovesValue ==
    (last.op = "rename" /\ last.error = "none") =>
        \A code \in LanguagesOf(pre.config) :
            IF Resolves(pre.files, code, last.key)
            THEN /\ sortObjectRecursively(Resolve(files, code, last.newKey))
                      = sortObjectRecursively(Resolve(pre.files, code, last.key))
                 /\ last.key # last.newKey => ~Resolves(files, code, last.key)
            ELSE /\ ~Saved(code)
                 /\ CatalogOf(files, code) = CatalogOf(pre.files, code)

\* C7 as stated: after a successful removeKey(path), path resolves in no
\* language, every other flattened key of every catalog is still there with
\* its value, and languages where path did not resolve are not rewritten.
C7_RemoveKeepsEveryOtherKey ==
    (last.op = "remove" /\ last.error = "none") =>
        \A code \in LanguagesOf(pre.config) :
            /\ ~Resolves(files, code, last.key)
            /\ \A e \in FlatSet(pre.files, code) :
                  e.k # last.key => Resolve(files, code, e.k) = e.v
            /\ ~Resolves(pre.files, code, last.key) =>
                  (~Saved(code) /\ CatalogOf(files, code) = CatalogOf(pre.files, code))

\* C7 amended: ... every other flattened key that does not lie beneath path
\* is still there with its value (the keys beneath path go with it) ...
C7_RemoveKeepsKeysOutsidePath ==
    (last.op = "remove" /\ last.error = "none") =>
        \A code \in LanguagesOf(pre.config) :
            /\ ~Resolves(files, code, last.key)
            /\ \A e \in FlatSet(pre.files, code) :
                  (e.k # last.key /\ ~Beneath(last.key, e.k))
                  => Resolve(files, code, e.k) = e.v
            /\ ~Resolves(pre.files, code, last.key) =>
                  (~Saved(code) /\ CatalogOf(files, code) = CatalogOf(pre.files, code))

\* C7 witness: a removal that rewrote a catalog which keeps another key.
C7_Witness ==
    /\ last.op = "remove"
    /\ last.error = "none"
    /\ \E code \in LanguagesOf(pre.config) :
          /\ Resolves(pre.files, code, last.key)
          /\ Saved(code)
          /\ FlatSet(files, code) # {}
    /\ \E code \in LanguagesOf(pre.config) : ~Resolves(pre.files, code, last.key)

\* C8: addLanguage with translateFromSource=false persists an empty catalog
\* for the new language, returns translated=false and keysCount 0, and never
\* calls the translation collaborator, whatever the source catalog holds.
C8_AddLanguageWithoutTranslation ==
    (last.op = "addLanguage" /\ ~last.translateFromSource /\ last.error = "none") =>
        /\ last.langCode \in DOMAIN files
        /\ files[last.langCode] = EmptyObj
        /\ ~last.translated
        /\ last.keysCount = 0
        /\ \A i \in 1..Len(io) : io[i].ev # "translate"

\* C8 witness: a language added without translation while the source catalog
\* holds keys.
C8_Witness ==
    /\ last.op = "addLanguage"
    /\ ~last.translateFromSource
    /\ last.error = "none"
    /\ FlatSet(pre.files, pre.config.sourceLanguage) # {}
    /\ Saved(last.langCode)

\* The batch translation call of the last addLanguage failed or returned a
\* number of texts different from the number of source keys.
AddLanguageBatchFailed ==
    /\ last.op = "addLanguage"
    /\ last.translateFromSource
    /\ last.error = "none"
    /\ FlatSet(pre.files, pre.config.sourceLanguage) # {}
    /\ \E i \in 1..Len(io) :
          /\ io[i].ev = "translate"
          /\ ~io[i].ok \/ Len(io[i].texts) # Cardinality(FlatSet(pre.files, pre.config.sourceLanguage))

\* C9: addLanguage with translateFromSource=true and a non-empty source
\* catalog whose batch call fails or returns the wrong number of texts
\* persists an empty catalog, returns translated=false with the error flag,
\* and stores no text of the batch result.
C9_AddLanguageFailedBatch ==
    AddLanguageBatchFailed =>
        /\ last.langCode \in DOMAIN files
        /\ files[last.langCode] = EmptyObj
        /\ ~last.translated
        /\ last.errorFlag
        /\ last.keysCount = 0

\* C9 witness: a batch result of the wrong, non-zero length.
C9_Witness ==
    /\ AddLanguageBatchFailed
    /\ \E i \in 1..Len(io) : io[i].ev = "translate" /\ io[i].ok /\ Len(io[i].texts) > 0
    /\ Saved(last.langCode)

\* The batch translation call of the last addLanguage returned as many texts
\* as the source catalog has keys.
AddLanguageBatchSucceeded ==
    /\ last.op = "addLanguage"
    /\ last.translateFromSource
    /\ last.error = "none"
    /\ FlatSet(pre.files, pre.config.sourceLanguage) # {}
    /\ \E i \in 1..Len(io) :
          /\ io[i].ev = "translate"
          /\ io[i].ok
          /\ Len(io[i].texts) = Cardinality(FlatSet(pre.files, pre.config.sourceLanguage))

\* C10: addLanguage with translateFromSource=true, a non-empty source catalog
\* and a batch result of matching length persists a catalog with the source
\* catalog's flattened key set in which the i-th source key (in flatten
\* order) holds the i-th translated text, and returns translated=true with
\* keysCount the number of source keys.
C10_AddLanguageTranslated ==
    AddLanguageBatchSucceeded =>
        LET source == flattenRec(CatalogOf(pre.files, pre.config.sourceLanguage).kids,
                                 <<>>, <<>>)
        IN  /\ {e.k : e \in FlatSet(files, last.langCode)}
                 = {source[j].k : j \in 1..Len(source)}
            /\ \A i \in 1..Len(io) :
                  io[i].ev = "translate" =>
                      \A j \in 1..Len(source) :
                          Resolve(files, last.langCode, source[j].k) = Str(io[i].texts[j])
            /\ last.translated
            /\ ~last.errorFlag
            /\ last.keysCount = Len(source)

\* C10 witness: a translated language whose source catalog holds two keys
\* that are not in sorted order.
C10_Witness ==
    /\ AddLanguageBatchSucceeded
    /\ CatalogOf(pre.files, pre.config.sourceLanguage) = UnsortedCatalog
    /\ Saved(last.langCode)

\* The language-code grammar ^[a-z]{2}-[a-z]{2}$ as the claims state it.
CodeGrammar(code) ==
    /\ Len(code) = 5
    /\ \A i \in {1, 2, 4, 5} : code[i] \in Lower
    /\ code[3] = "-"

\* C11: addLanguage raises an error and writes neither the configuration nor
\* any catalog file when the language code is already configured or does not
\* match ^[a-z]{2}-[a-z]{2}$.
C11_AddLanguageErrorsWriteNothing ==
    (/\ last.op = "addLanguage"
     /\ \/ last.langCode \in LanguagesOf(pre.config)
        \/ ~CodeGrammar(last.langCode))
    => /\ last.error \in {"LanguageExists", "InvalidCode"}
       /\ config = pre.config
       /\ NoWrite

\* C11 witness: a malformed code was refused, on catalogs that hold keys.
C11_Witness ==
    /\ last.op = "addLanguage"
    /\ last.error = "InvalidCode"
    /\ last.langCode \notin LanguagesOf(pre.config)
    /\ FlatSet(pre.files, pre.config.sourceLanguage) # {}

\* Some proper prefix of path resolves to a leaf in tree.
LeafOnTheWay(tree, path) ==
    \E n \in 1..(Len(split(path)) - 1) :
        getRec(tree, SubSeq(split(path), 1, n)).kind = "string"

\* C12: for all trees T, also those in which a proper prefix of P holds a
\* leaf, all paths P and all values V, set(T, P, V) completes and
\* get(set(T, P, V), P) = V.
C12_GetAfterSet ==
    call.fn = "set" =>
        /\ ~call.threw
        /\ getRec(call.out, split(call.path)) = call.value

\* The value is a mapping without keys.
IsEmptyMapping(v) == v.kind = "object" /\ v.kids = <<>>

\* C13: for all trees T and paths P of any depth where get(T, P) is defined,
\* get(remove(T, P), P) is undefined and no ancestor position of P holds an
\* empty mapping in the result.
C13_RemovePrunesEmptyAncestors ==
    (call.fn = "remove" /\ getRec(call.tree, split(call.path)) # Undefined) =>
        /\ getRec(call.out, split(call.path)) = Undefined
        /\ \A n \in 1..(Len(split(call.path)) - 1) :
              ~IsEmptyMapping(getRec(call.out, SubSeq(split(call.path), 1, n)))

\* The properties of an object as a set of [k, v] entries.
EntrySet(o) == {o.kids[i] : i \in 1..Len(o.kids)}

\* C14: for every tree T, building a tree by set(path, value) for each pair of
\* flatten(T), in any order, and flattening it again yields exactly the pairs
\* of flatten(T).
C14_FlattenRoundTrip ==
    call.fn = "unflatten" =>
        /\ ~call.threw
        /\ EntrySet(call.out) = EntrySet(Obj(flattenRec(call.tree.kids, <<>>, <<>>)))
        /\ Cardinality(EntrySet(call.out)) = Len(call.out.kids)

\* C14 witness: a tree with two levels and three leaves, rebuilt from its
\* pairs taken in another order than flatten gave them.
C14_Witness ==
    /\ call.fn = "unflatten"
    /\ Len(call.out.kids) = 3
    /\ call.path = <<3, 1, 2>>
    /\ \E i \in 1..3 : Len(split(call.out.kids[i].k)) > 1
    /\ call.value # call.tree

\* The keys of every mapping of v are enumerated in ascending order of their
\* code units.
RECURSIVE AscendingEverywhere(_)
AscendingEverywhere(v) ==
    v.kind = "object" =>
        /\ \A i \in 1..(Len(v.kids) - 1) : StrLess(v.kids[i].k, v.kids[i + 1].k)
        /\ \A i \in 1..Len(v.kids) : AscendingEverywhere(v.kids[i].v)

\* x and y are the same tree but for the order of the keys of their mappings:
\* the same keys at every level and the same values that are not mappings.
RECURSIVE SameUpToOrder(_, _)
SameUpToOrder(x, y) ==
    IF x.kind # "object" \/ y.kind # "object" THEN x = y
    ELSE /\ Len(x.kids) = Len(y.kids)
         /\ \A i \in 1..Len(x.kids) :
               /\ HasOwn(y, x.kids[i].k)
               /\ SameUpToOrder(x.kids[i].v, Prop(y, x.kids[i].k))

\* C15: for every tree T, every mapping level of sortRecursive(T) has its keys
\* in ascending order, values that are not mappings (arrays too) are passed
\* through unchanged, and sortRecursive(sortRecursive(T)) = sortRecursive(T).
C15_SortNormalises ==
    /\ call.fn = "sort" =>
          /\ AscendingEverywhere(call.out)
          /\ SameUpToOrder(call.out, call.tree)
    /\ call.fn = "sortAgain" => call.out = call.value

\* The members of a list.
Range(seq) == {seq[i] : i \in 1..Len(seq)}

\* The flattened key set of the catalog of a language.
FlatKeys(fs, code) == {e.k : e \in FlatSet(fs, code)}

\* The keys verifyTranslations reported missing for a language.
ReportedMissing(result, code) ==
    UNION {Range(result.issues[i].keys) :
             i \in {j \in 1..Len(result.issues) :
                      result.issues[j].type = "missing"
                      /\ result.issues[j].langCode = code}}

\* C16: allKeys is the sorted union of the flattened key sets of all
\* configured catalogs, each language's missingKeys is allKeys minus its own
\* flattened key set, and verifyTranslations returns isValid = true exactly
\* when no language misses a key, i.e. when all configured catalogs have the
\* same flattened key set.
C16_VerifyReportsMissingKeys ==
    call.fn = "verifyTranslations" =>
        LET union == UNION {FlatKeys(files, code) : code \in LanguagesOf(config)}
            result == call.out
        IN  /\ Range(result.allKeys) = union
            /\ Len(result.allKeys) = Cardinality(union)
            /\ \A i \in 1..(Len(result.allKeys) - 1) :
                  StrLess(result.allKeys[i], result.allKeys[i + 1])
            /\ \A code \in LanguagesOf(config) :
                  ReportedMissing(result, code) = union \ FlatKeys(files, code)
            /\ result.isValid <=>
                  \A code \in LanguagesOf(config) : union \ FlatKeys(files, code) = {}
            /\ result.isValid <=>
                  \A c1 \in LanguagesOf(config), c2 \in LanguagesOf(config) :
                      FlatKeys(files, c1) = FlatKeys(files, c2)

\* C16 witness: three catalogs with different key sets, one language without
\* a file, and a key that two languages miss.
C16_Witness ==
    /\ call.fn = "verifyTranslations"
    /\ ~call.out.isValid
    /\ DeDe \notin DOMAIN files
    /\ FlatKeys(files, EnUs) # FlatKeys(files, PtPt)
    /\ Len(call.out.allKeys) = 3
    /\ \E key \in Range(call.out.allKeys) :
          key \in ReportedMissing(call.out, DeDe) \cap ReportedMissing(call.out, EnUs)

\* The number of tenths a text of digits, a point and one digit denotes.
RECURSIVE NumberOf(_)
NumberOf(chars) ==
    IF chars = <<>> THEN 0
    ELSE 10 * NumberOf(SubSeq(chars, 1, Len(chars) - 1)) + DigitValue(chars[Len(chars)])

TenthsOf(chars) ==
    10 * NumberOf(SubSeq(chars, 1, Len(chars) - 2)) + DigitValue(chars[Len(chars)])

\* The entries findIncompleteTranslations listed for a language.
ListedFor(result, code) ==
    {i \in 1..Len(result.incompleteLanguages) :
        result.incompleteLanguages[i].langCode = code}

\* C17: findIncompleteTranslations takes the flattened key set of the source
\* catalog alone as reference: a language other than the source is listed
\* exactly when it lacks a source key, its missingKeys are the source keys
\* minus its own keys, and its completeness is
\* (sourceCount - missingCount) / sourceCount * 100 written with one decimal,
\* at most half a tenth away from that quotient; the source language is never
\* listed and no key outside the source catalog is reported.
C17_IncompleteRelativeToSource ==
    call.fn = "findIncompleteTranslations" =>
        LET result == call.out
            source == FlatKeys(files, config.sourceLanguage)
            sourceCount == Cardinality(source)
        IN  /\ ListedFor(result, config.sourceLanguage) = {}
            /\ \A code \in LanguagesOf(config) \ {config.sourceLanguage} :
                  LET missing == source \ FlatKeys(files, code)
                  IN  /\ Cardinality(ListedFor(result, code)) =
                            (IF missing = {} THEN 0 ELSE 1)
                      /\ \A i \in ListedFor(result, code) :
                            LET entry == result.incompleteLanguages[i]
                                c == entry.completeness
                            IN  /\ Range(entry.missingKeys) = missing
                                /\ Len(entry.missingKeys) = Cardinality(missing)
                                /\ entry.missingCount = Cardinality(missing)
                                /\ Len(c) >= 3
                                /\ c[Len(c) - 1] = "."
                                /\ \A j \in (1..Len(c)) \ {Len(c) - 1} : c[j] \in Digit
                                /\ LET d == TenthsOf(c) * sourceCount
                                             - 1000 * (sourceCount - entry.missingCount)
                                   IN  2 * d <= sourceCount /\ 2 * d >= 0 - sourceCount
            /\ \A i \in 1..Len(result.incompleteLanguages) :
                  /\ result.incompleteLanguages[i].langCode \in LanguagesOf(config)
                  /\ Range(result.incompleteLanguages[i].missingKeys) \subseteq source

\* C17 witness: the source has three keys, one language holds one of them
\* (33.3), another holds two of them and a key of its own, which is not
\* reported.
C17_Witness ==
    /\ call.fn = "findIncompleteTranslations"
    /\ Cardinality(FlatKeys(files, PtPt)) = 3
    /\ \E i, j \in 1..Len(call.out.incompleteLanguages) :
          /\ call.out.incompleteLanguages[i].completeness = <<"3", "3", ".", "3">>
          /\ call.out.incompleteLanguages[j].completeness = <<"6", "6", ".", "7">>
    /\ \E code \in {EnUs, DeDe} :
          /\ code \in DOMAIN files
          /\ ~(FlatKeys(files, code) \subseteq FlatKeys(files, PtPt))

\* C18: generateMissingKeysJSON(targetLanguage) returns a nested tree whose
\* flattened entries are exactly the entries of the source catalog whose keys
\* the target catalog lacks, each with its source-language value, and the
\* empty tree when the target lacks no source key.
C18_MissingKeysTemplate ==
    call.fn = "generateMissingKeysJSON" =>
        LET missing == {e \in FlatSet(files, config.sourceLanguage) :
                           e.k \notin FlatKeys(files, call.path)}
        IN  /\ ~call.threw
            /\ call.out.kind = "object"
            /\ Range(flattenObject(call.out)) = missing
            /\ Len(flattenObject(call.out)) = Cardinality(missing)
            /\ missing = {} => call.out = EmptyObj

\* C18 witness: the target lacks two keys of a nested source mapping and holds
\* a third; the template nests the two under their common parent.
C18_Witness ==
    /\ call.fn = "generateMissingKeysJSON"
    /\ call.path # config.sourceLanguage
    /\ FlatKeys(files, config.sourceLanguage) \cap FlatKeys(files, call.path) # {}
    /\ Len(call.out.kids) = 1
    /\ call.out.kids[1].v.kind = "object"
    /\ Len(call.out.kids[1].v.kids) = 2
    /\ \E e \in Range(flattenObject(call.out)) : e.v = Str("x")

\* C19: the unused keys scanUnusedTranslations reports are the flattened keys
\* of the source catalog minus the used keys: every key of the source catalog
\* is in exactly one of usedKeys and unusedKeys, and unusedKeys holds no other
\* key.
C19_UnusedIsReferenceMinusUsed ==
    call.fn = "scanUnusedTranslations" =>
        LET reference == FlatKeys(files, config.sourceLanguage)
            used == Range(call.out.usedKeys)
            unused == Range(call.out.unusedKeys)
        IN  /\ unused = reference \ used
            /\ \A key \in reference : (key \in used) # (key \in unused)
            /\ unused \subseteq reference
            /\ Len(call.out.unusedKeys) = Cardinality(unused)
            /\ Len(call.out.usedKeys) = Cardinality(used)
            /\ call.out.totalKeys = Cardinality(reference)

\* C19 witness: of three keys of the source catalog the text uses two by
\* literals; the third is unused.
C19_Witness ==
    /\ call.fn = "scanUnusedTranslations"
    /\ Cardinality(FlatKeys(files, config.sourceLanguage)) = 3
    /\ Len(call.out.unusedKeys) = 1
    /\ Cardinality(Range(call.out.usedKeys) \cap FlatKeys(files, config.sourceLanguage)) = 2

\* C20: a call of t, $t or i18n.t whose key is built with template
\* interpolation, mustache interpolation or string concatenation adds no
\* entry to usedKeys: every used key is the literal key of a line that is
\* not such a call.
C20_DynamicKeysNeverUsed ==
    call.fn = "scanUnusedTranslations" =>
        Range(call.out.usedKeys) \subseteq
            {call.tree[i].key : i \in {j \in 1..Len(call.tree) : ~call.tree[j].dynamic}}

\* C21: the usage rate the scan reports is the number of used keys that are
\* keys of the source catalog, divided by the number of keys of the source
\* catalog, times 100; it never exceeds 100.
C21_UsageRateCountsCatalogKeys ==
    (call.fn = "scanUnusedTranslations" /\ call.out.scanned) =>
        LET reference == FlatKeys(files, config.sourceLanguage)
            used == Range(call.out.usedKeys)
            rate == call.out.usageRate
        IN  /\ rate.num * Cardinality(reference)
                  = 100 * Cardinality(used \cap reference) * rate.den
            /\ rate.num <= 100 * rate.den
            /\ Cardinality(used \cap reference) + Len(call.out.unusedKeys)
                  = Cardinality(reference)

\* C28: in a usage scan a file that cannot be read is counted as an error,
\* gives no key to usedKeys and no place to the usage locations, and does not
\* end the scan: the keys of every readable file, before and after it, are
\* used keys, scannedFiles is the number of files and errorFiles the number
\* of unreadable ones.
C28_UnreadableFileIsSkipped ==
    (call.fn = "scanUnusedTranslations" /\ call.out.scanned) =>
        LET filesToScan == call.value
            readable == {i \in 1..Len(filesToScan) : ~filesToScan[i].error}
            keysOf(i) == Range(extractTranslationKeys(filesToScan[i].content))
            result == call.out
        IN  /\ result.scannedFiles = Len(filesToScan)
            /\ result.errorFiles = Len(filesToScan) - Cardinality(readable)
            /\ Range(result.usedKeys) = UNION {keysOf(i) : i \in readable}
            /\ {e.key : e \in Range(result.keyUsageMap)} = Range(result.usedKeys)
            /\ \A e \in Range(result.keyUsageMap) :
                  Range(e.files) = {i \in readable : e.key \in keysOf(i)}

\* C28 witness: the first of two files cannot be read, the second is read and
\* gives a used key; the keys of the first are not used.
C28_Witness ==
    /\ call.fn = "scanUnusedTranslations"
    /\ call.out.scanned
    /\ Len(call.value) = 2
    /\ call.value[1].error /\ ~call.value[2].error
    /\ call.out.errorFiles = 1 /\ call.out.scannedFiles = 2
    /\ Len(call.out.usedKeys) = 1
    /\ extractTranslationKeys(call.value[1].content) # <<>>
    /\ extractTranslationKeys(call.value[1].content) # call.out.usedKeys

\* The catalog file of the language cannot be read or parsed.
IsCorrupt(fs, code) == code \in DOMAIN fs /\ fs[code] = Corrupt

\* C22: loading a catalog whose file is absent gives the empty tree and no
\* error; loading a catalog whose file cannot be read or parsed raises an
\* error that ends the command; a corrupt catalog is never taken for an
\* empty one and the command leaves its file as it was.
C22_CorruptCatalogAbortsCommand ==
    last.op # "none" =>
        /\ \A code \in DOMAIN pre.files :
              IsCorrupt(pre.files, code) => IsCorrupt(files, code)
        /\ \A i \in 1..Len(io) :
              io[i].ev = "load" =>
                  /\ io[i].ok <=> ~IsCorrupt(pre.files, io[i].lang)
                  /\ ~io[i].ok => (i = Len(io) /\ last.error = "LoadError")
        /\ \A code \in LanguagesOf(pre.config) :
              (code \notin DOMAIN pre.files /\ Saved(code) /\ last.op = "add") =>
                  files[code] = setNestedProperty(EmptyObj, last.key, Str(last.text)).obj

\* C22 witness: a command saved the catalog of the first language and then
\* failed to load the corrupt catalog of the second, which is still corrupt.
C22_Witness ==
    /\ last.error = "LoadError"
    /\ Saved(EnUs)
    /\ IsCorrupt(pre.files, PtPt)
    /\ IsCorrupt(files, PtPt)
    /\ files[EnUs] # pre.files[EnUs]

\* C23: every catalog written by a mutating command (add, batch-add, rename,
\* remove, add-language) went through sortRecursive: each catalog file the
\* last command saved has its keys in ascending order at every mapping level.
C23_WrittenCatalogsAreSorted ==
    \A code \in DOMAIN files : Saved(code) => AscendingEverywhere(files[code])

\* C24: set(T, P, V) where a proper prefix of P holds a leaf replaces that
\* leaf with a mapping, stores V at P and returns normally: it does not raise,
\* and afterwards no proper prefix of P holds a leaf.
C24_SetReplacesLeafOnTheWay ==
    (call.fn = "set" /\ LeafOnTheWay(call.tree, call.path)) =>
        /\ ~call.threw
        /\ ~LeafOnTheWay(call.out, call.path)
        /\ getRec(call.out, split(call.path)) = call.value

\* The command asked the user about key in the catalog of code.
Prompted(code, key) ==
    \E i \in 1..Len(io) : io[i].ev = "prompt" /\ io[i].lang = code /\ io[i].key = key

\* The command loaded the catalog of code.
Loaded(code) ==
    \E i \in 1..Len(io) : io[i].ev = "load" /\ io[i].lang = code /\ io[i].ok

\* The command has a text to store for code: the source text, or a text that
\* the translation call returned.
HasText(code) ==
    \/ code = pre.config.sourceLanguage
    \/ \E i \in 1..Len(io) :
          io[i].ev = "translate" /\ io[i].lang = code /\ io[i].ok /\ io[i].texts # <<"">>

\* C25: addOrUpdateKey applies the conflict policy only where the path
\* resolves to a leaf: in a language whose catalog resolves the path to
\* nothing or to a mapping (with children or empty), the user is not asked
\* and, with or without force, the new value is stored whenever there is a
\* text to store.
C25_ConflictPolicyOnlyForLeaves ==
    last.op = "add" =>
        \A code \in LanguagesOf(pre.config) :
            (Loaded(code) /\ Resolve(pre.files, code, last.key).kind # "string") =>
                /\ ~Prompted(code, last.key)
                /\ HasText(code) => Overwritten(code, last.key)

\* The steps of one language in a command, in the order the code takes them.
Steps == <<"load", "prompt", "translate", "set", "save">>

StepOf(ev) == CHOOSE n \in 1..Len(Steps) : Steps[n] = ev

\* From event number from on, the command works on one language at a time in
\* the order of the configuration: the events of a language start with its
\* one load and follow the order of Steps, and come before every event of a
\* later language.
OneAtATime(from) ==
    /\ \A i \in from..Len(io) :
          io[i].ev # "load" => (i > from /\ io[i - 1].lang = io[i].lang)
    /\ \A i, j \in from..Len(io) :
          i < j =>
             \/ PositionOf(pre.config, io[i].lang) < PositionOf(pre.config, io[j].lang)
             \/ /\ io[i].lang = io[j].lang
                /\ io[j].ev # "load"
                /\ StepOf(io[i].ev) <= StepOf(io[j].ev)

\* Each catalog is saved at most once by the command.
SavedOnce ==
    \A i, j \in 1..Len(io) :
        (io[i].ev = "save" /\ io[j].ev = "save" /\ io[i].lang = io[j].lang) => i = j

\* The first m events are loads only, of languages in the order of the
\* configuration: the read-only scan before rename and remove.
ScanOnly(m) ==
    /\ \A i \in 1..m : io[i].ev = "load"
    /\ \A i, j \in 1..m :
          i < j => PositionOf(pre.config, io[i].lang) < PositionOf(pre.config, io[j].lang)

\* C26 as stated: add, batch-add, rename and remove process the languages
\* one at a time in the order of the configuration: load, prompt, translation
\* call and save of language k all come before the load of language k+1, and
\* each catalog is saved at most once per command.
C26_OneLanguageAtATimeAsStated ==
    last.op \in {"add", "batch", "rename", "remove"} => (OneAtATime(1) /\ SavedOnce)

\* C26 amended: add and batch-add do so from their first step; rename and
\* remove first load catalogs in the order of the configuration without
\* writing any (the precondition scan), and from then on process the languages
\* one at a time in that order; each catalog is saved at most once.
C26_OneLanguageAtATime ==
    /\ last.op \in {"add", "batch"} => (OneAtATime(1) /\ SavedOnce)
    /\ last.op \in {"rename", "remove"} =>
          /\ SavedOnce
          /\ \E m \in 0..Len(io) : ScanOnly(m) /\ OneAtATime(m + 1)

\* C26 witness: an interactive add that asked about the key in en-us,
\* called the translation and saved en-us, and then loaded and saved pt-pt.
C26_Witness ==
    /\ last.op = "add"
    /\ Answered(EnUs, last.key, TRUE)
    /\ Happened("translate", EnUs)
    /\ Saved(EnUs)
    /\ Saved(PtPt)

\* The languages whose catalog holds the flattened key.
Holders(fs, cfg, key) == {code \in LanguagesOf(cfg) : key \in FlatKeys(fs, code)}

\* C27: for every set of catalogs and every language, the extra keys of the
\* language relative to allKeys are none, verifyTranslations reports no issue
\* of type "extra", and a key that only one language holds is reported as
\* missing for each of the other languages and for no issue of its holder.
C27_NoExtraKeys ==
    call.fn = "verifyTranslations" =>
        /\ \A code \in LanguagesOf(config) :
              getExtraKeys(files, code, getAllKeys(files, config)) = <<>>
        /\ \A i \in 1..Len(call.out.issues) : call.out.issues[i].type # "extra"
        /\ \A code \in LanguagesOf(config) :
              \A key \in FlatKeys(files, code) :
                  Holders(files, config, key) = {code} =>
                      /\ \A i \in 1..Len(call.out.issues) :
                            call.out.issues[i].langCode = code =>
                                key \notin Range(call.out.issues[i].keys)
                      /\ \A other \in LanguagesOf(config) \ {code} :
                            key \in ReportedMissing(call.out, other)

\* C27 witness: a verification of catalogs in which a language other than
\* the source holds a key that no other language holds.
C27_Witness ==
    /\ call.fn = "verifyTranslations"
    /\ \E code \in LanguagesOf(config) \ {config.sourceLanguage} :
          \E key \in FlatKeys(files, code) :
              /\ Holders(files, config, key) = {code}
              /\ \A other \in LanguagesOf(config) \ {code} :
                    key \in ReportedMissing(call.out, other)
    /\ \E i \in 1..Len(call.out.issues) : call.out.issues[i].langCode = EnUs

\* The text is a decimal number with one digit after the point.
IsOneDecimal(chars) ==
    /\ Len(chars) >= 3
    /\ chars[Len(chars) - 1] = "."
    /\ \A i \in 1..Len(chars) : i # Len(chars) - 1 => chars[i] \in Digit

\* t tenths is a nearest number of tenths to present / total * 100.
NearestTenths(t, present, total) ==
    LET d == t * total - 1000 * present
    IN  2 * (IF d < 0 THEN 0 - d ELSE d) <= total

\* C29: in the completeness report, for every configured language and every
\* set of catalogs, also one without any key, completeness is
\* (allKeysSize - missingCount) / allKeysSize * 100 to one decimal place, a
\* percentage between 0.0 and 100.0 that is 100.0 exactly when the language
\* misses no key.
C29_CompletenessIsAPercentage ==
    call.fn = "generateMissingTranslationsReport" =>
        LET union == UNION {FlatKeys(files, code) : code \in LanguagesOf(config)}
            report == call.out
        IN  /\ report.totalKeys = Cardinality(union)
            /\ Len(report.languages) = Len(config.languages)
            /\ \A i \in 1..Len(report.languages) :
                  LET entry == report.languages[i]
                  IN  /\ entry.langCode = config.languages[i]
                      /\ entry.missingCount
                           = Cardinality(union \ FlatKeys(files, entry.langCode))
                      /\ IsOneDecimal(entry.completeness)
                      /\ TenthsOf(entry.completeness) \in 0..1000
                      /\ NearestTenths(TenthsOf(entry.completeness),
                                       report.totalKeys - entry.missingCount,
                                       report.totalKeys)
                      /\ TenthsOf(entry.completeness) = 1000 <=> entry.missingCount = 0

\* All configured catalogs have the same flattened key set.
Aligned(fs, cfg) ==
    \A c1 \in LanguagesOf(cfg), c2 \in LanguagesOf(cfg) : FlatKeys(fs, c1) = FlatKeys(fs, c2)

\* C30: a successful renameKey or removeKey (any paths, with or without
\* force) run on catalogs that all have the same flattened key set leaves
\* catalogs that all have the same flattened key set; hence so does every
\* sequence of such commands.
C30_AlignmentPreserved ==
    [][(/\ Aligned(files, config)
        /\ last'.op \in {"rename", "remove"}
        /\ last'.error = "none")
       => Aligned(files', config')]_vars
====
